---- MODULE Spec2Model ----
(***************************************************************************)
(* Scoring and ranking engine of the CuriousMind quiz backend:             *)
(* quizzes/views.py (submit_quiz, save_custom_quiz_result, user_profile,   *)
(* global_leaderboard, quiz_leaderboard, cleanup_quiz_data),               *)
(* quizzes/models.py (UserProfile.update_stats, update_all_ranks),         *)
(* quizzes/management/commands/update_leaderboard.py and update_points.py, *)
(* and quizzes/scheduler.py.                                               *)
(*                                                                         *)
(* The database tables are the state.  average_score_percentage is kept    *)
(* in hundredths of a percent (5333 stands for 53.33).                     *)
(***************************************************************************)
EXTENDS Integers, Sequences, FiniteSets, TLC

VARIABLES
    users,          \* ids of the rows of auth.User
    quizzes,        \* Quiz rows: id -> [is_active, is_ai_generated]
    questions,      \* Question rows: id -> [quiz, points]
    attempts,       \* QuizAttempt rows (a set of records, each with its id)
    answers,        \* Answer rows, in insertion order
    profiles,       \* UserProfile rows: user id -> aggregates and rank
    scheduler,      \* the module global of scheduler.py
    job_instances,  \* executions of update_leaderboard_job in progress
    fired,          \* interval firings so far
    started,        \* executions started so far
    skipped,        \* firings dropped so far
    jobs,           \* the job store of the scheduler: job id -> [next_run]
    schedulers,     \* the BackgroundScheduler objects created so far, by number
    current,        \* the number of the object the module global is bound to
    clock,          \* what timezone.now() reads
    last,           \* the last operation and what it returned
    calls           \* requests and commands in progress: worker -> its local variables

vars == <<users, quizzes, questions, attempts, answers, profiles,
          scheduler, job_instances, fired, started, skipped, jobs,
          schedulers, current, clock, last, calls>>

store == <<users, quizzes, questions, attempts, answers, profiles>>
sched == <<scheduler, job_instances, fired, started, skipped, jobs, schedulers, current>>

-----------------------------------------------------------------------------
(* Bounds *)

MaxAnswers == 2
MaxAnswerRows == 2
MaxCustomQuizzes == 2
MaxFirings == 3
MaxClock == 2
MaxCleanupCustoms == 1
MaxLimit == 2
MaxSchedulers == 2

\* the user ids requests carry
UserIds == {1, 2}

-----------------------------------------------------------------------------
(* The question bank the import pipeline left behind *)

\* a question_id that is not a number ("abc"): Question.objects.get raises ValueError
NonNumeric == -1
\* no selected_choice_id key in the submitted pair
NoChoice == 0
\* a quiz id no Quiz row has
MissingQuiz == 9
\* completed_at of an attempt that is not completed (NULL)
NoTime == 0

FixtureQuizzes ==
    (1 :> [is_active |-> TRUE,  is_ai_generated |-> FALSE]) @@
    (2 :> [is_active |-> TRUE,  is_ai_generated |-> TRUE])  @@
    (3 :> [is_active |-> FALSE, is_ai_generated |-> FALSE])

FixtureQuestions ==
    (1 :> [quiz |-> 1, points |-> 1]) @@
    (2 :> [quiz |-> 1, points |-> 2]) @@
    (3 :> [quiz |-> 2, points |-> 4])

Choices ==
    (1 :> [question |-> 1, is_correct |-> TRUE])  @@
    (2 :> [question |-> 1, is_correct |-> FALSE]) @@
    (3 :> [question |-> 2, is_correct |-> TRUE])  @@
    (4 :> [question |-> 3, is_correct |-> TRUE])

\* the submitted (question_id, selected_choice_id) pairs the model draws from
AnswerEntries ==
    { [question_id |-> 1, selected_choice_id |-> 1],
      [question_id |-> 1, selected_choice_id |-> 2],
      [question_id |-> 2, selected_choice_id |-> 3],
      [question_id |-> 1, selected_choice_id |-> 3],
      [question_id |-> 3, selected_choice_id |-> 4],
      [question_id |-> NonNumeric, selected_choice_id |-> NoChoice] }

SeqsUpTo(S, n) == UNION { [1..k -> S] : k \in 0..n }

AnswerInputs == SeqsUpTo(AnswerEntries, MaxAnswers)

-----------------------------------------------------------------------------
(* Helpers *)

RECURSIVE SumFn(_, _)
SumFn(f, S) ==
    IF S = {} THEN 0
    ELSE LET x == CHOOSE y \in S : TRUE IN f[x] + SumFn(f, S \ {x})

MaxOf(S) == IF S = {} THEN 0 ELSE CHOOSE m \in S : \A y \in S : y <= m

NoOp == [op |-> "none", result |-> "none", user |-> 0, attempt |-> 0, processed |-> 0,
         rank |-> 0, limit |-> 0, listing |-> <<>>]

-----------------------------------------------------------------------------
(* submit_quiz, statement by statement *)

\* (mutation) the lookup without is_active=True
QuizGettableInactive(qs, qid) == qid \in DOMAIN qs

\* Quiz.objects.get(id=quiz_id, is_active=True)
QuizGettable(qs, qid) == qid \in DOMAIN qs /\ qs[qid].is_active

\* (mutation) every question counted as one point
QuizQuestionCount(qn, qid) == Cardinality({x \in DOMAIN qn : qn[x].quiz = qid})

\* sum(q.points for q in quiz.questions.all())
QuizTotalPoints(qn, qid) ==
    SumFn([x \in DOMAIN qn |-> qn[x].points], {x \in DOMAIN qn : qn[x].quiz = qid})

AttemptsOf(atts, u, qid) == {a \in atts : a.user = u /\ a.quiz = qid}

NextAttemptId(atts) == MaxOf({a.id : a \in atts}) + 1

\* Question.objects.get(id=question_id, quiz=quiz)
QuestionGettable(qn, qid, question_id) ==
    question_id \in DOMAIN qn /\ qn[question_id].quiz = qid

\* Choice.objects.get(id=selected_choice_id, question=question)
ChoiceGettable(question_id, choice_id) ==
    choice_id \in DOMAIN Choices /\ Choices[choice_id].question = question_id

\* one pass of the loop body over one submitted pair:
\* "raise" (ValueError), "skip" (continue) or "row" (Answer.objects.create)
ProcessEntry(qn, qid, e) ==
    IF e.question_id = NonNumeric
    THEN [kind |-> "raise", question |-> 0, selected_choice |-> NoChoice,
          is_correct |-> FALSE, points |-> 0]
    ELSE IF ~QuestionGettable(qn, qid, e.question_id)
    THEN [kind |-> "skip", question |-> 0, selected_choice |-> NoChoice,
          is_correct |-> FALSE, points |-> 0]
    ELSE LET found == e.selected_choice_id # NoChoice
                        /\ ChoiceGettable(e.question_id, e.selected_choice_id)
             correct == found /\ Choices[e.selected_choice_id].is_correct
         IN  [kind |-> "row", question |-> e.question_id,
              selected_choice |-> IF found THEN e.selected_choice_id ELSE NoChoice,
              is_correct |-> correct,
              points |-> IF correct THEN qn[e.question_id].points ELSE 0]

\* the loop "for answer_data in answers_data": the Answer rows written, the
\* score accumulated, and whether the loop was left by an exception
RECURSIVE ProcessAnswers(_, _, _, _)
ProcessAnswers(qn, qid, aid, entries) ==
    IF entries = <<>>
    THEN [rows |-> <<>>, score |-> 0, raised |-> FALSE]
    ELSE LET r == ProcessEntry(qn, qid, Head(entries))
         IN  IF r.kind = "raise"
             THEN [rows |-> <<>>, score |-> 0, raised |-> TRUE]
             ELSE LET rest == ProcessAnswers(qn, qid, aid, Tail(entries))
                  IN  IF r.kind = "skip" THEN rest
                      ELSE [rows |-> <<[attempt |-> aid, question |-> r.question,
                                        selected_choice |-> r.selected_choice,
                                        is_correct |-> r.is_correct]>> \o rest.rows,
                            score |-> r.points + rest.score,
                            raised |-> rest.raised]

-----------------------------------------------------------------------------
(* UserProfile.update_stats *)

\* (mutation) the filter without quiz__is_ai_generated=False
CompletedAttemptsWithAI(atts, qs, u) == {a \in atts : a.user = u /\ a.is_completed}

\* QuizAttempt.objects.filter(user=self.user, is_completed=True,
\*                            quiz__is_ai_generated=False)
CompletedAttempts(atts, qs, u) ==
    {a \in atts : a.user = u /\ a.is_completed /\ ~qs[a.quiz].is_ai_generated}

\* Avg(field) over the filtered rows, as the fraction sum / count
Avg(f, S) == [num |-> SumFn(f, S), den |-> Cardinality(S)]

\* the expression Avg('score') * 100.0 / Avg('total_points')
TimesHundred(a) == [num |-> 100 * a.num, den |-> a.den]
Quotient(a, b) == [num |-> a.num * b.den, den |-> a.den * b.num]

\* round(avg_percentage, 2), kept in hundredths (den > 0, num >= 0)
Round2(a) == (2 * 100 * a.num + a.den) \div (2 * a.den)

\* (mutation) the mean of the attempts' own percentages (QuizAttempt.percentage)
MeanOfPercentages(S) ==
    Round2([num |-> SumFn([a \in S |-> IF a.total_points > 0
                                       THEN Round2([num |-> 100 * a.score,
                                                    den |-> a.total_points])
                                       ELSE 0], S),
            den |-> 100 * Cardinality(S)])

\* avg=Avg('score') * 100.0 / Avg('total_points'), rounded
AveragePercentage(S) ==
    Round2(Quotient(TimesHundred(Avg([a \in S |-> a.score], S)),
                    Avg([a \in S |-> a.total_points], S)))

\* the fields update_stats computes; with Avg('total_points') = 0 the division is
\* NULL on SQLite ("or 0" stores 0.0) and an error on PostgreSQL
StatsOutcomes(atts, qs, u) ==
    LET S  == CompletedAttempts(atts, qs, u)
        n  == Cardinality(S)
        ts == SumFn([a \in S |-> a.score], S)
        tt == SumFn([a \in S |-> a.total_points], S)
    IN  IF n > 0
        THEN IF tt # 0
             THEN {[raised |-> FALSE, total_quizzes_completed |-> n, total_score |-> ts,
                    average_score_percentage |-> AveragePercentage(S)]}
             ELSE {[raised |-> r, total_quizzes_completed |-> n, total_score |-> ts,
                    average_score_percentage |-> 0] : r \in BOOLEAN}
        ELSE {[raised |-> FALSE, total_quizzes_completed |-> 0, total_score |-> 0,
               average_score_percentage |-> 0]}

NewProfile == [total_score |-> 0, total_quizzes_completed |-> 0,
               average_score_percentage |-> 0, rank |-> 0]

\* UserProfile.objects.get_or_create(user=user)
ProfileGetOrCreate(P, u) == IF u \in DOMAIN P THEN P ELSE P @@ (u :> NewProfile)

\* self.save() at the end of update_stats: the row takes the computed aggregates
\* (an exception before it leaves the row as it was)
SaveStats(P, u, o) ==
    IF o.raised THEN P
    ELSE [P EXCEPT ![u] = [total_score |-> o.total_score,
                           total_quizzes_completed |-> o.total_quizzes_completed,
                           average_score_percentage |-> o.average_score_percentage,
                           rank |-> P[u].rank]]

-----------------------------------------------------------------------------
(* UserProfile.update_all_ranks *)

\* cls.objects.filter(total_quizzes_completed__gt=0)
Qualifying(P) == {u \in DOMAIN P : P[u].total_quizzes_completed > 0}

\* (mutation) order_by('total_score', 'average_score_percentage'): ascending
OrderedBeforeAscending(P, a, b) ==
    \/ P[a].total_score < P[b].total_score
    \/ /\ P[a].total_score = P[b].total_score
       /\ P[a].average_score_percentage <= P[b].average_score_percentage

\* order_by('-total_score', '-average_score_percentage'): a may come before b
OrderedBefore(P, a, b) ==
    \/ P[a].total_score > P[b].total_score
    \/ /\ P[a].total_score = P[b].total_score
       /\ P[a].average_score_percentage >= P[b].average_score_percentage

\* the row orders the database may return for that query: rows with equal sort
\* keys come in an order the ORDER BY clause does not fix
RankOrders(P) ==
    LET Q == Qualifying(P)
        N == Cardinality(Q)
    IN  {f \in [1..N -> Q] :
            /\ \A i, j \in 1..N : i # j => f[i] # f[j]
            /\ \A i, j \in 1..N : i < j => OrderedBefore(P, f[i], f[j])}

\* (mutation) enumerate(profiles) counting from 0
AssignRanksFromZero(P, f) ==
    [u \in DOMAIN P |->
        [P[u] EXCEPT !.rank =
            IF \E i \in DOMAIN f : f[i] = u
            THEN (CHOOSE i \in DOMAIN f : f[i] = u) - 1
            ELSE 0]]

\* (mutation) the ranks assigned without cls.objects.all().update(rank=0) first
AssignRanksNoReset(P, f) ==
    [u \in DOMAIN P |->
        [P[u] EXCEPT !.rank =
            IF \E i \in DOMAIN f : f[i] = u
            THEN CHOOSE i \in DOMAIN f : f[i] = u
            ELSE P[u].rank]]

\* cls.objects.all().update(rank=0), then rank = index for each profile of the
\* query, saved with update_fields=['rank']
AssignRanks(P, f) ==
    [u \in DOMAIN P |->
        [P[u] EXCEPT !.rank =
            IF \E i \in DOMAIN f : f[i] = u
            THEN CHOOSE i \in DOMAIN f : f[i] = u
            ELSE 0]]

-----------------------------------------------------------------------------
(* The request handlers, each as one step *)

\* what the operation op answered, the user and the attempt it worked on and the
\* number of Answer rows it wrote; rank, limit and listing are filled in by the
\* handlers that answer with a rank or a list
Returned(op, result, u, aid, n) ==
    [op |-> op, result |-> result, user |-> u, attempt |-> aid, processed |-> n,
     rank |-> 0, limit |-> 0, listing |-> <<>>]

\* (mutation) a plain create in place of get_or_create, on a table without
\* the unique constraint
AttemptAlwaysCreate(atts, qn, u, qid, now) ==
    [id |-> NextAttemptId(atts), user |-> u, quiz |-> qid, score |-> 0,
     total_points |-> QuizTotalPoints(qn, qid), is_completed |-> FALSE,
     started_at |-> now, completed_at |-> NoTime]

\* (mutation) update_or_create: total_points recomputed on every call
AttemptUpdateOrCreate(atts, qn, u, qid, now) ==
    IF AttemptsOf(atts, u, qid) # {}
    THEN [(CHOOSE a \in AttemptsOf(atts, u, qid) : TRUE)
              EXCEPT !.total_points = QuizTotalPoints(qn, qid)]
    ELSE [id |-> NextAttemptId(atts), user |-> u, quiz |-> qid, score |-> 0,
          total_points |-> QuizTotalPoints(qn, qid), is_completed |-> FALSE,
          started_at |-> now, completed_at |-> NoTime]

\* QuizAttempt.objects.get_or_create(user, quiz, defaults={'total_points': ...})
AttemptGetOrCreate(atts, qn, u, qid, now) ==
    IF AttemptsOf(atts, u, qid) # {}
    THEN CHOOSE a \in AttemptsOf(atts, u, qid) : TRUE
    ELSE [id |-> NextAttemptId(atts), user |-> u, quiz |-> qid, score |-> 0,
          total_points |-> QuizTotalPoints(qn, qid), is_completed |-> FALSE,
          started_at |-> now, completed_at |-> NoTime]

\* (mutation) the completion check left out
AlreadyCompletedNever(att) == FALSE

\* (mutation) the check made on the score in place of the flag
AlreadyScored(att) == att.score > 0

\* if attempt.is_completed: return 'Quiz already completed'
AlreadyCompleted(att) == att.is_completed

\* attempt.score = score; attempt.completed_at = timezone.now();
\* attempt.is_completed = True; attempt.save()
CompleteAttempt(att, score, now) ==
    [att EXCEPT !.score = score, !.completed_at = now, !.is_completed = TRUE]

\* 'rank': profile.rank of the Response: the field of the object get_or_create
\* loaded; update_all_ranks saves other objects and this one is not reloaded
ReturnedRank(P, u) == P[u].rank

\* submit_quiz(request) with user_id u, quiz_id qid and the answers list entries
Submit(u, qid, entries) ==
    /\ UNCHANGED <<quizzes, questions, sched, clock, calls>>
    /\ IF ~QuizGettable(quizzes, qid)
       THEN /\ last' = Returned("submit", "QuizNotFound", 0, 0, 0)
            /\ UNCHANGED <<users, attempts, answers, profiles>>
       ELSE IF quizzes[qid].is_ai_generated
       THEN /\ last' = Returned("submit", "SubmissionNotAllowed", 0, 0, 0)
            /\ UNCHANGED <<users, attempts, answers, profiles>>
       ELSE
       LET att == AttemptGetOrCreate(attempts, questions, u, qid, clock)
       IN  /\ users' = users \cup {u}
           /\ IF AlreadyCompleted(att)
              THEN /\ last' = Returned("submit", "AlreadyCompleted", u, att.id, 0)
                   /\ UNCHANGED <<attempts, answers, profiles>>
              ELSE
              LET r == ProcessAnswers(questions, qid, att.id, entries)
              IN  /\ answers' = answers \o r.rows
                  /\ IF r.raised
                     THEN /\ attempts' = attempts \cup {att}
                          /\ UNCHANGED profiles
                          /\ last' = Returned("submit", "ServerError", u, att.id, Len(r.rows))
                     ELSE
                     LET atts2 == (attempts \ {att}) \cup {CompleteAttempt(att, r.score, clock)}
                         P1    == ProfileGetOrCreate(profiles, u)
                     IN  /\ attempts' = atts2
                         /\ \E o \in StatsOutcomes(atts2, quizzes, u) :
                              IF o.raised
                              THEN /\ profiles' = P1
                                   /\ last' = Returned("submit", "ServerError", u, att.id,
                                                       Len(r.rows))
                              ELSE /\ \E f \in RankOrders(SaveStats(P1, u, o)) :
                                        profiles' = AssignRanks(SaveStats(P1, u, o), f)
                                   /\ last' = [Returned("submit", "ok", u, att.id,
                                                         Len(r.rows))
                                                   EXCEPT !.rank = ReturnedRank(P1, u)]

-----------------------------------------------------------------------------
(* save_custom_quiz_result and user_profile *)

\* the (score, total_points, is_ai_generated) triples clients send to
\* save-custom-result
CustomInputs == { <<5, 10, FALSE>>, <<3, 5, FALSE>>, <<0, 0, FALSE>>, <<5, 10, TRUE>> }

CustomQuizzes == DOMAIN quizzes \ DOMAIN FixtureQuizzes

\* save_custom_quiz_result(request): a fresh inactive Quiz and a completed
\* QuizAttempt with the score and total_points the caller supplies
SaveCustomQuizResult(u, score, total_points, is_ai_generated) ==
    /\ UNCHANGED <<questions, answers, profiles, users, sched, clock, calls>>
    /\ IF u \notin users
       THEN /\ last' = Returned("save_custom_quiz_result", "UserNotFound", 0, 0, 0)
            /\ UNCHANGED <<quizzes, attempts>>
       ELSE LET qid == MaxOf(DOMAIN quizzes) + 1
                aid == NextAttemptId(attempts)
            IN  /\ quizzes' = quizzes @@
                       (qid :> [is_active |-> FALSE, is_ai_generated |-> is_ai_generated])
                /\ attempts' = attempts \cup
                       {[id |-> aid, user |-> u, quiz |-> qid, score |-> score,
                         total_points |-> total_points, is_completed |-> TRUE,
                         started_at |-> clock, completed_at |-> clock]}
                /\ last' = Returned("save_custom_quiz_result", "ok", u, aid, 0)

\* profile.update_stats() on the stored profile of user u
UpdateStats(u) ==
    /\ u \in DOMAIN profiles
    /\ UNCHANGED <<users, quizzes, questions, attempts, answers, sched, clock, calls>>
    /\ \E o \in StatsOutcomes(attempts, quizzes, u) :
         /\ profiles' = SaveStats(profiles, u, o)
         /\ last' = Returned("update_stats", IF o.raised THEN "ServerError" ELSE "ok", u, 0, 0)

\* user_profile(request, user_id): the profile is created on first need and its
\* statistics are computed only then
UserProfileView(u) ==
    /\ UNCHANGED <<users, quizzes, questions, attempts, answers, sched, clock, calls>>
    /\ IF u \notin users
       THEN /\ last' = Returned("user_profile", "UserNotFound", 0, 0, 0)
            /\ UNCHANGED profiles
       ELSE IF u \in DOMAIN profiles
       THEN /\ last' = Returned("user_profile", "ok", u, 0, 0)
            /\ UNCHANGED profiles
       ELSE \E o \in StatsOutcomes(attempts, quizzes, u) :
              /\ profiles' = SaveStats(ProfileGetOrCreate(profiles, u), u, o)
              /\ last' = Returned("user_profile",
                                  IF o.raised THEN "ServerError" ELSE "ok", u, 0, 0)

\* UserProfile.update_all_ranks()
UpdateAllRanks ==
    /\ UNCHANGED <<users, quizzes, questions, attempts, answers, sched, clock, calls>>
    /\ \E f \in RankOrders(profiles) : profiles' = AssignRanks(profiles, f)
    /\ last' = Returned("update_all_ranks", "ok", 0, 0, 0)

-----------------------------------------------------------------------------
(* manage.py update_leaderboard *)

\* UserProfile.objects.all() under Meta.ordering = ['rank']: the orders in which
\* the command may visit the profiles
ProfileOrders(P) ==
    LET N == Cardinality(DOMAIN P)
    IN  {f \in [1..N -> DOMAIN P] :
            /\ \A i, j \in 1..N : i # j => f[i] # f[j]
            /\ \A i, j \in 1..N : i < j => P[f[i]].rank <= P[f[j]].rank}

\* "for profile in profiles: profile.update_stats()": the tables the loop can
\* leave, and whether an update_stats raised and ended it
RECURSIVE StatsLoop(_, _, _, _)
StatsLoop(P, atts, qs, order) ==
    IF order = <<>>
    THEN {[profiles |-> P, raised |-> FALSE]}
    ELSE UNION { IF o.raised
                 THEN {[profiles |-> P, raised |-> TRUE]}
                 ELSE StatsLoop(SaveStats(P, Head(order), o), atts, qs, Tail(order))
                 : o \in StatsOutcomes(atts, qs, Head(order)) }

\* Command.handle: the profile tables one run of the command can leave, with
\* whether it raised
LeaderboardRuns(P, atts, qs) ==
    IF DOMAIN P = {}
    THEN {[profiles |-> P, raised |-> FALSE]}
    ELSE UNION { UNION { IF r.raised THEN {r}
                         ELSE {[profiles |-> AssignRanks(r.profiles, f), raised |-> FALSE]
                                 : f \in RankOrders(r.profiles)}
                         : r \in StatsLoop(P, atts, qs, order) }
                 : order \in ProfileOrders(P) }

\* call_command('update_leaderboard') from a shell
UpdateLeaderboard ==
    /\ UNCHANGED <<users, quizzes, questions, attempts, answers, sched, clock, calls>>
    /\ \E r \in LeaderboardRuns(profiles, attempts, quizzes) :
         /\ profiles' = r.profiles
         /\ last' = Returned("update_leaderboard",
                             IF r.raised THEN "ServerError" ELSE "ok", 0, 0, 0)

-----------------------------------------------------------------------------
(* global_leaderboard and quiz_leaderboard *)

\* queryset[:n]
Take(rows, n) == SubSeq(rows, 1, IF n < Len(rows) THEN n ELSE Len(rows))

\* UserProfile.objects.filter(total_quizzes_completed__gt=0).order_by('rank'):
\* the row orders the database may return (rows of equal rank in any order)
LeaderboardOrders(P) ==
    LET Q == Qualifying(P)
        N == Cardinality(Q)
    IN  {f \in [1..N -> Q] :
            /\ \A i, j \in 1..N : i # j => f[i] # f[j]
            /\ \A i, j \in 1..N : i < j => P[f[i]].rank <= P[f[j]].rank}

\* LeaderboardEntrySerializer
LeaderboardEntry(P, u) ==
    [user |-> u, rank |-> P[u].rank, total_score |-> P[u].total_score,
     total_quizzes_completed |-> P[u].total_quizzes_completed,
     average_score_percentage |-> P[u].average_score_percentage]

\* global_leaderboard(request) with ?limit=limit
GlobalLeaderboard(limit) ==
    /\ UNCHANGED <<store, sched, clock, calls>>
    /\ \E f \in LeaderboardOrders(profiles) :
         last' = [Returned("global_leaderboard", "ok", 0, 0, 0)
                    EXCEPT !.limit = limit,
                           !.listing = Take([i \in DOMAIN f |->
                                               LeaderboardEntry(profiles, f[i])], limit)]

\* the slice [:50] of quiz_leaderboard
QuizLeaderboardSize == 50

\* QuizAttempt.objects.filter(quiz=quiz, is_completed=True)
\*     .order_by('-score', 'completed_at'): the row orders the database may
\* return (rows of equal score and completion time in any order)
QuizLeaderboardOrders(atts, qid) ==
    LET S == {a \in atts : a.quiz = qid /\ a.is_completed}
        N == Cardinality(S)
    IN  {f \in [1..N -> S] :
            /\ \A i, j \in 1..N : i # j => f[i] # f[j]
            /\ \A i, j \in 1..N : i < j =>
                  \/ f[i].score > f[j].score
                  \/ f[i].score = f[j].score /\ f[i].completed_at <= f[j].completed_at}

\* quiz_leaderboard(request, quiz_id) with ?limit=limit, a parameter the view
\* does not read
QuizLeaderboard(qid, limit) ==
    /\ UNCHANGED <<store, sched, clock, calls>>
    /\ IF ~(QuizGettable(quizzes, qid) /\ ~quizzes[qid].is_ai_generated)
       THEN last' = [Returned("quiz_leaderboard", "QuizNotFound", 0, 0, 0)
                       EXCEPT !.limit = limit]
       ELSE \E f \in QuizLeaderboardOrders(attempts, qid) :
              last' = [Returned("quiz_leaderboard", "ok", 0, 0, 0)
                         EXCEPT !.limit = limit,
                                !.listing = Take([i \in DOMAIN f |->
                                                    [rank |-> i, quiz |-> qid,
                                                     attempt |-> f[i].id,
                                                     user |-> f[i].user,
                                                     score |-> f[i].score,
                                                     total_points |-> f[i].total_points,
                                                     completed_at |-> f[i].completed_at]],
                                                 QuizLeaderboardSize)]

-----------------------------------------------------------------------------
(* manage.py update_points *)

\* Question.difficulty of the bank; questions 1 and 2 carry the field's
\* default, and question 1 the default points=1 as well
Difficulty == (1 :> "medium") @@ (2 :> "medium") @@ (3 :> "hard") @@ (4 :> "hard")

\* the three update(points=...) calls: 4 for hard, 2 for medium, 1 for easy;
\* a question of any other difficulty keeps its points
PointsByDifficulty(d, points) ==
    IF d = "hard" THEN 4
    ELSE IF d = "medium" THEN 2
    ELSE IF d = "easy" THEN 1
    ELSE points

\* Command.handle of update_points
UpdatePoints ==
    /\ questions' = [x \in DOMAIN questions |->
                        [questions[x] EXCEPT
                            !.points = PointsByDifficulty(Difficulty[x], @)]]
    /\ UNCHANGED <<users, quizzes, attempts, answers, profiles, sched, clock, calls>>
    /\ last' = Returned("update_points", "ok", 0, 0, 0)

\* the id the next Question row gets
ImportedQuestion == 4

\* "easy" 1, "medium" 2, "hard" 4, anything else 2: the points the import
\* gives a question
PointsOfDifficulty(d) ==
    IF d = "easy" THEN 1 ELSE IF d = "hard" THEN 4 ELSE 2

\* create_quiz_and_questions of import_opentdb for a category whose quiz
\* exists already: get_or_create finds quiz qid and one more Question row is
\* created under it, in one transaction
ImportQuestion(qid) ==
    /\ ImportedQuestion \notin DOMAIN questions
    /\ qid \in DOMAIN quizzes
    /\ questions' = questions @@
                      (ImportedQuestion :>
                          [quiz |-> qid,
                           points |-> PointsOfDifficulty(Difficulty[ImportedQuestion])])
    /\ UNCHANGED <<users, quizzes, attempts, answers, profiles, sched, clock, calls>>
    /\ last' = Returned("import_opentdb", "ok", 0, 0, 0)

-----------------------------------------------------------------------------
(* cleanup_quiz_data *)

\* a request without cutoff_date, or with one that is not YYYY-MM-DD
NoCutoff == 0

\* (mutation) the loop over the profiles without the update_all_ranks call
CleanupRunsStatsOnly(P, atts, qs) ==
    UNION { StatsLoop(P, atts, qs, order) : order \in ProfileOrders(P) }

\* "for profile in profiles: profile.update_stats()" and then
\* UserProfile.update_all_ranks(), as the view runs them after the deletion
CleanupRuns(P, atts, qs) ==
    UNION { UNION { IF r.raised THEN {r}
                    ELSE {[profiles |-> AssignRanks(r.profiles, f), raised |-> FALSE]
                            : f \in RankOrders(r.profiles)}
                    : r \in StatsLoop(P, atts, qs, order) }
            : order \in ProfileOrders(P) }

\* cleanup_quiz_data(request) with cutoff_date cutoff: the attempts started
\* before it go, with their answers; then every profile is recomputed
CleanupQuizData(cutoff) ==
    /\ UNCHANGED <<users, quizzes, questions, sched, clock, calls>>
    /\ IF cutoff = NoCutoff
       THEN /\ last' = Returned("cleanup_quiz_data", "ValidationError", 0, 0, 0)
            /\ UNCHANGED <<attempts, answers, profiles>>
       ELSE LET doomed == {a \in attempts : a.started_at < cutoff}
                gone   == {a.id : a \in doomed}
                rows   == SelectSeq(answers, LAMBDA r : r.attempt \notin gone)
            IN  /\ answers' = rows
                /\ attempts' = attempts \ doomed
                /\ \E r \in CleanupRuns(profiles, attempts \ doomed, quizzes) :
                     /\ profiles' = r.profiles
                     /\ last' = Returned("cleanup_quiz_data",
                                         IF r.raised THEN "ServerError" ELSE "ok",
                                         0, 0, Len(answers) - Len(rows))

\* time passes: timezone.now() reads later
Tick ==
    /\ clock < MaxClock
    /\ clock' = clock + 1
    /\ UNCHANGED <<store, sched, last, calls>>

-----------------------------------------------------------------------------
(* scheduler.py *)

\* (mutation) a job allowed two overlapping executions
MaxInstancesTwo == 1 + 1

\* max_instances=1 of scheduler.add_job
MaxInstances == 1

\* id='leaderboard_update_job' of scheduler.add_job
JobId == "leaderboard_update_job"

\* the job store of a scheduler that was never given a job, or of no scheduler
NoJobs == <<>>

\* scheduler.add_job(..., id=JobId, replace_existing=True) and scheduler.start():
\* the job is due at the end of the scheduler's first interval
AddJob(js) == (JobId :> [next_run |-> 1]) @@ js

\* (mutation) start_scheduler() without the "is not None" check
StartSchedulerUnguarded ==
    /\ UNCHANGED <<store, job_instances, fired, started, skipped, schedulers, current, clock, calls>>
    /\ scheduler' = "running"
    /\ jobs' = AddJob(NoJobs)
    /\ last' = Returned("start_scheduler", "ok", 0, 0, 0)

\* start_scheduler(): a no-op while the global holds a scheduler
StartScheduler ==
    /\ UNCHANGED <<store, job_instances, fired, started, skipped, schedulers, current, clock, calls>>
    /\ IF scheduler # "None"
       THEN /\ UNCHANGED <<scheduler, jobs>>
            /\ last' = Returned("start_scheduler", "already", 0, 0, 0)
       ELSE /\ scheduler' = "running"
            /\ jobs' = AddJob(NoJobs)
            /\ last' = Returned("start_scheduler", "ok", 0, 0, 0)

\* stop_scheduler() up to the point where scheduler.shutdown() has stopped the
\* timer and waits for the executions in progress
StopSchedulerBegin ==
    /\ scheduler = "running"
    /\ scheduler' = "shutdown"
    /\ UNCHANGED <<store, job_instances, fired, started, skipped, jobs, schedulers, current, clock, calls>>
    /\ last' = Returned("stop_scheduler", "waiting", 0, 0, 0)

\* scheduler.shutdown() returns once no execution is in progress; scheduler = None
\* drops the scheduler object and its job store
StopSchedulerEnd ==
    /\ scheduler = "shutdown"
    /\ job_instances = 0
    /\ scheduler' = "None"
    /\ jobs' = NoJobs
    /\ UNCHANGED <<store, job_instances, fired, started, skipped, schedulers, current, clock, calls>>
    /\ last' = Returned("stop_scheduler", "ok", 0, 0, 0)

\* stop_scheduler() while no scheduler exists
StopSchedulerNone ==
    /\ scheduler = "None"
    /\ UNCHANGED <<store, sched, clock, calls>>
    /\ last' = Returned("stop_scheduler", "none", 0, 0, 0)

\* (mutation) a timer that still comes due while shutdown() waits
IntervalFiresWhileStopping ==
    /\ scheduler # "None"
    /\ fired < MaxFirings
    /\ fired' = fired + 1
    /\ jobs' = [jobs EXCEPT ![JobId].next_run = @ + 1]
    /\ UNCHANGED <<store, scheduler, schedulers, current, clock, calls>>
    /\ IF job_instances < MaxInstances
       THEN /\ job_instances' = job_instances + 1
            /\ started' = started + 1
            /\ UNCHANGED skipped
            /\ last' = Returned("interval", "started", 0, 0, 0)
       ELSE /\ skipped' = skipped + 1
            /\ UNCHANGED <<job_instances, started>>
            /\ last' = Returned("interval", "skipped", 0, 0, 0)

\* the IntervalTrigger comes due: the executor starts the job unless
\* max_instances executions of it are in progress, and then drops the firing;
\* either way the job's next_run_time moves on by one interval
IntervalFires ==
    /\ scheduler = "running"
    /\ fired < MaxFirings
    /\ fired' = fired + 1
    /\ jobs' = [jobs EXCEPT ![JobId].next_run = @ + 1]
    /\ UNCHANGED <<store, scheduler, schedulers, current, clock, calls>>
    /\ IF job_instances < MaxInstances
       THEN /\ job_instances' = job_instances + 1
            /\ started' = started + 1
            /\ UNCHANGED skipped
            /\ last' = Returned("interval", "started", 0, 0, 0)
       ELSE /\ skipped' = skipped + 1
            /\ UNCHANGED <<job_instances, started>>
            /\ last' = Returned("interval", "skipped", 0, 0, 0)

\* (mutation) an exception that escapes the job and leaves its execution slot
\* taken
JobRunsLeaksOnError ==
    /\ job_instances > 0
    /\ UNCHANGED <<users, quizzes, questions, attempts, answers,
                   scheduler, fired, started, skipped, jobs, schedulers, current, clock, calls>>
    /\ \E r \in LeaderboardRuns(profiles, attempts, quizzes) :
         /\ profiles' = r.profiles
         /\ job_instances' = IF r.raised THEN job_instances ELSE job_instances - 1
         /\ last' = Returned("update_leaderboard_job",
                             IF r.raised THEN "failed" ELSE "ok", 0, 0, 0)

\* update_leaderboard_job(): the command runs; an exception is logged and
\* swallowed; the execution ends
JobRuns ==
    /\ job_instances > 0
    /\ job_instances' = job_instances - 1
    /\ UNCHANGED <<users, quizzes, questions, attempts, answers,
                   scheduler, fired, started, skipped, jobs, schedulers, current, clock, calls>>
    /\ \E r \in LeaderboardRuns(profiles, attempts, quizzes) :
         /\ profiles' = r.profiles
         /\ last' = Returned("update_leaderboard_job",
                             IF r.raised THEN "failed" ELSE "ok", 0, 0, 0)

\* (mutation) a status that never lists the job
StatusReportNoJobs(s, js) ==
    [status |-> IF s = "running" THEN "running" ELSE "stopped", jobs |-> <<>>]

\* get_scheduler_status(): "stopped" and no jobs without a scheduler; otherwise
\* scheduler.running and scheduler.get_jobs(), which are False and empty once
\* shutdown() has begun
StatusReport(s, js) ==
    [status |-> IF s = "running" THEN "running" ELSE "stopped",
     jobs   |-> IF s = "running" /\ JobId \in DOMAIN js
                THEN <<[id |-> JobId, next_run |-> js[JobId].next_run]>>
                ELSE <<>>]

\* GET scheduler/ (get_jobs waits for the lock a shutdown in progress holds)
GetSchedulerStatus ==
    /\ scheduler # "shutdown"
    /\ UNCHANGED <<store, sched, clock, calls>>
    /\ last' = [Returned("get_scheduler_status", StatusReport(scheduler, jobs).status,
                         0, 0, 0)
                  EXCEPT !.listing = StatusReport(scheduler, jobs).jobs]

-----------------------------------------------------------------------------
(* Calls running side by side.  Django runs every statement in autocommit and *)
(* none of these functions opens a transaction, so each database statement   *)
(* of submit_quiz, update_stats, update_all_ranks and the update_leaderboard *)
(* command is one step of the worker that runs the call.                     *)

\* the threads that run calls: request workers and the scheduler's job thread
Workers == {1, 2}

\* no QuizAttempt object in a call's variables yet
NoAttempt == [id |-> 0, user |-> 0, quiz |-> 0, score |-> 0, total_points |-> 0,
              is_completed |-> FALSE, started_at |-> NoTime, completed_at |-> NoTime]

\* no UserProfile object in a call's variables yet
NoProfile == [user |-> 0, total_score |-> 0, total_quizzes_completed |-> 0,
              average_score_percentage |-> 0, rank |-> 0]

\* no answer of the external model yet
NoAnswer == [kind |-> "none", keywords |-> {}]

\* the UserProfile object a query returns for user u: a copy of the row's fields
LoadedProfile(P, u) ==
    [user |-> u, total_score |-> P[u].total_score,
     total_quizzes_completed |-> P[u].total_quizzes_completed,
     average_score_percentage |-> P[u].average_score_percentage,
     rank |-> P[u].rank]

\* the local variables of a worker that runs no call; batch is the set of
\* users whose profile the command's loop was given, saved the set of users
\* whose update_stats this call has run to its save(), target the
\* scheduler object a stop_scheduler call is shutting down, asked the number
\* of generate_content calls made and heard what the last of them gave
Idle == [op |-> "none", pc |-> "idle", result |-> "none",
         user |-> 0, quiz |-> 0, entries |-> <<>>,
         attempt |-> NoAttempt, score |-> 0, wrote |-> 0,
         self |-> NoProfile, loaded |-> <<>>, order |-> <<>>, index |-> 0,
         rank |-> 0, seen |-> {}, batch |-> {}, saved |-> {}, target |-> 0,
         asked |-> 0, heard |-> NoAnswer]

NoCalls == [w \in Workers |-> Idle]

\* the call returns (or ends in an exception) with the given result
Ends(c, result) == [c EXCEPT !.pc = "done", !.result = result]

\* Answer rows that calls in progress may still write
RECURSIVE PendingRows(_)
PendingRows(W) ==
    IF W = {} THEN 0
    ELSE LET w == CHOOSE x \in W : TRUE
         IN  Len(calls[w].entries) + PendingRows(W \ {w})

\* submit_quiz, lines 48-58: the quiz lookup, the AI check and the user_id read
BeginSubmit(p, u, qid, entries) ==
    /\ calls[p].pc = "idle"
    /\ UNCHANGED <<store, sched, clock, last>>
    /\ calls' = [calls EXCEPT ![p] =
          IF ~QuizGettable(quizzes, qid)
          THEN Ends([Idle EXCEPT !.op = "submit"], "QuizNotFound")
          ELSE IF quizzes[qid].is_ai_generated
          THEN Ends([Idle EXCEPT !.op = "submit"], "SubmissionNotAllowed")
          ELSE [Idle EXCEPT !.op = "submit", !.pc = "get_user", !.user = u,
                            !.quiz = qid, !.entries = entries]]

\* User.objects.get(id=user_id)
GetUser(p) ==
    /\ calls[p].pc = "get_user"
    /\ UNCHANGED <<store, sched, clock, last>>
    /\ calls' = [calls EXCEPT ![p].pc =
          IF calls[p].user \in users THEN "get_attempt" ELSE "create_user"]

\* User.objects.create_user(username=f'user_{user_id}'): IntegrityError on the
\* unique username when another call created the user in between
CreateUser(p) ==
    /\ calls[p].pc = "create_user"
    /\ UNCHANGED <<quizzes, questions, attempts, answers, profiles, sched, clock, last>>
    /\ IF calls[p].user \in users
       THEN /\ UNCHANGED users
            /\ calls' = [calls EXCEPT ![p] = Ends(@, "ServerError")]
       ELSE /\ users' = users \cup {calls[p].user}
            /\ calls' = [calls EXCEPT ![p].pc = "get_attempt"]

\* QuizAttempt.objects.get_or_create(...) and the check of attempt.is_completed
\* on the object it returned
GetOrCreateAttempt(p) ==
    /\ calls[p].pc = "get_attempt"
    /\ UNCHANGED <<users, quizzes, questions, answers, profiles, sched, clock, last>>
    /\ LET c   == calls[p]
           att == AttemptGetOrCreate(attempts, questions, c.user, c.quiz, clock)
       IN  /\ attempts' = attempts \cup {att}
           /\ calls' = [calls EXCEPT ![p] =
                 IF AlreadyCompleted(att)
                 THEN Ends([c EXCEPT !.attempt = att], "AlreadyCompleted")
                 ELSE [c EXCEPT !.attempt = att,
                                !.pc = IF c.entries = <<>> THEN "save_attempt"
                                       ELSE "answers"]]

\* one pass of "for answer_data in answers_data"
AnswerStep(p) ==
    /\ calls[p].pc = "answers"
    /\ UNCHANGED <<users, quizzes, questions, attempts, profiles, sched, clock, last>>
    /\ LET c    == calls[p]
           r    == ProcessEntry(questions, c.quiz, Head(c.entries))
           rest == Tail(c.entries)
           next == IF rest = <<>> THEN "save_attempt" ELSE "answers"
       IN  IF r.kind = "raise"
           THEN /\ UNCHANGED answers
                /\ calls' = [calls EXCEPT ![p] = Ends([c EXCEPT !.entries = <<>>],
                                                      "ServerError")]
           ELSE IF r.kind = "skip"
           THEN /\ UNCHANGED answers
                /\ calls' = [calls EXCEPT ![p] = [c EXCEPT !.entries = rest, !.pc = next]]
           ELSE /\ answers' = Append(answers,
                                     [attempt |-> c.attempt.id, question |-> r.question,
                                      selected_choice |-> r.selected_choice,
                                      is_correct |-> r.is_correct])
                /\ calls' = [calls EXCEPT ![p] =
                      [c EXCEPT !.entries = rest, !.pc = next,
                                !.score = @ + r.points, !.wrote = @ + 1]]

\* attempt.score = score; ...; attempt.save(): every field of the object this
\* call holds goes to the row
SaveAttempt(p) ==
    /\ calls[p].pc = "save_attempt"
    /\ UNCHANGED <<users, quizzes, questions, answers, profiles, sched, clock, last>>
    /\ LET c     == calls[p]
           saved == CompleteAttempt(c.attempt, c.score, clock)
       IN  /\ attempts' = {a \in attempts : a.id # c.attempt.id} \cup {saved}
           /\ calls' = [calls EXCEPT ![p] = [c EXCEPT !.attempt = saved,
                                                      !.pc = "get_profile"]]

\* UserProfile.objects.get_or_create(user=user)
GetOrCreateProfile(p) ==
    /\ calls[p].pc = "get_profile"
    /\ UNCHANGED <<users, quizzes, questions, attempts, answers, sched, clock, last>>
    /\ LET c  == calls[p]
           P1 == ProfileGetOrCreate(profiles, c.user)
       IN  /\ profiles' = P1
           /\ calls' = [calls EXCEPT ![p] = [c EXCEPT !.self = LoadedProfile(P1, c.user),
                                                      !.pc = "stats_count"]]

\* profile.update_stats() on a profile object loaded for user u
BeginUpdateStats(p, u) ==
    /\ calls[p].pc = "idle"
    /\ u \in DOMAIN profiles
    /\ UNCHANGED <<store, sched, clock, last>>
    /\ calls' = [calls EXCEPT ![p] =
          [Idle EXCEPT !.op = "update_stats", !.pc = "stats_count", !.user = u,
                       !.self = LoadedProfile(profiles, u),
                       !.seen = CompletedAttempts(attempts, quizzes, u)]]

\* self.total_quizzes_completed = completed_attempts.count()
StatsCount(p) ==
    /\ calls[p].pc = "stats_count"
    /\ UNCHANGED <<store, sched, clock, last>>
    /\ calls' = [calls EXCEPT
          ![p].self.total_quizzes_completed =
              Cardinality(CompletedAttempts(attempts, quizzes, calls[p].self.user)),
          ![p].pc = "stats_sum"]

\* self.total_score = completed_attempts.aggregate(total=Sum('score'))['total'] or 0
StatsSum(p) ==
    /\ calls[p].pc = "stats_sum"
    /\ UNCHANGED <<store, sched, clock, last>>
    /\ LET S == CompletedAttempts(attempts, quizzes, calls[p].self.user)
       IN  calls' = [calls EXCEPT
              ![p].self.total_score = SumFn([a \in S |-> a.score], S),
              ![p].pc = "stats_avg"]

\* the values the aggregate avg=Avg('score') * 100.0 / Avg('total_points') may
\* give over the rows S, rounded; -1 stands for the database error
AvgOutcomes(S) ==
    IF S = {} THEN {0}
    ELSE IF SumFn([a \in S |-> a.total_points], S) = 0 THEN {0, -1}
    ELSE {AveragePercentage(S)}

\* "if self.total_quizzes_completed > 0": the third query and round(), or 0.0
StatsAvg(p) ==
    /\ calls[p].pc = "stats_avg"
    /\ UNCHANGED <<store, sched, clock, last>>
    /\ LET c == calls[p]
           S == CompletedAttempts(attempts, quizzes, c.self.user)
       IN  IF c.self.total_quizzes_completed > 0
           THEN \E v \in AvgOutcomes(S) :
                   calls' = [calls EXCEPT ![p] =
                      IF v < 0 THEN Ends(c, "ServerError")
                      ELSE [c EXCEPT !.self.average_score_percentage = v,
                                     !.pc = "stats_save"]]
           ELSE calls' = [calls EXCEPT ![p] =
                   [c EXCEPT !.self.average_score_percentage = 0, !.pc = "stats_save"]]

\* (mutation) a save that adds the computed totals to the stored ones
StoredProfileAdding(row, self) ==
    [total_score |-> row.total_score + self.total_score,
     total_quizzes_completed |-> row.total_quizzes_completed
                                     + self.total_quizzes_completed,
     average_score_percentage |-> self.average_score_percentage,
     rank |-> self.rank]

\* the row self.save() writes: every field of the object, rank included
StoredProfile(row, self) ==
    [total_score |-> self.total_score,
     total_quizzes_completed |-> self.total_quizzes_completed,
     average_score_percentage |-> self.average_score_percentage,
     rank |-> self.rank]

\* self.save() at the end of update_stats; the caller goes on: the command to
\* its next profile, the command after its last and submit_quiz to
\* update_all_ranks
StatsSave(p) ==
    /\ calls[p].pc = "stats_save"
    /\ UNCHANGED <<users, quizzes, questions, attempts, answers, sched, clock, last>>
    /\ LET c == calls[p]
           d == [c EXCEPT !.saved = @ \cup {c.self.user}]
       IN  /\ profiles' = [profiles EXCEPT ![c.self.user] = StoredProfile(@, c.self)]
           /\ calls' = [calls EXCEPT ![p] =
                 IF c.op = "update_stats" THEN Ends(d, "ok")
                 ELSE IF c.loaded # <<>>
                 THEN [d EXCEPT !.self = Head(c.loaded), !.loaded = Tail(c.loaded),
                                !.pc = "stats_count"]
                 ELSE [d EXCEPT !.pc = "ranks_reset"]]

\* UserProfile.update_all_ranks() called on its own
BeginUpdateAllRanks(p) ==
    /\ calls[p].pc = "idle"
    /\ UNCHANGED <<store, sched, clock, last>>
    /\ calls' = [calls EXCEPT ![p] = [Idle EXCEPT !.op = "update_all_ranks",
                                                  !.pc = "ranks_reset"]]

\* cls.objects.all().update(rank=0)
RanksReset(p) ==
    /\ calls[p].pc = "ranks_reset"
    /\ UNCHANGED <<users, quizzes, questions, attempts, answers, sched, clock, last>>
    /\ profiles' = [u \in DOMAIN profiles |-> [profiles[u] EXCEPT !.rank = 0]]
    /\ calls' = [calls EXCEPT ![p].pc = "ranks_read"]

\* the Response of submit_quiz carries profile.rank of the object the call holds
Returns(c) == [Ends(c, "ok") EXCEPT !.rank = c.self.rank]

\* "for index, profile in enumerate(profiles, 1)" begins: the filtered and
\* ordered query, built before the reset, runs now
RanksRead(p) ==
    /\ calls[p].pc = "ranks_read"
    /\ UNCHANGED <<store, sched, clock, last>>
    /\ \E f \in RankOrders(profiles) :
          calls' = [calls EXCEPT ![p] =
             IF Len(f) = 0 THEN Returns([calls[p] EXCEPT !.order = f])
             ELSE [calls[p] EXCEPT !.order = f, !.index = 1, !.pc = "ranks_assign"]]

\* profile.rank = index; profile.save(update_fields=['rank'])
RanksAssign(p) ==
    /\ calls[p].pc = "ranks_assign"
    /\ UNCHANGED <<users, quizzes, questions, attempts, answers, sched, clock, last>>
    /\ LET c == calls[p]
       IN  /\ profiles' = [profiles EXCEPT ![c.order[c.index]].rank = c.index]
           /\ calls' = [calls EXCEPT ![p] =
                 IF c.index = Len(c.order) THEN Returns(c)
                 ELSE [c EXCEPT !.index = @ + 1]]

\* Command.handle of update_leaderboard, lines 18-25: profiles.count()
BeginUpdateLeaderboard(p) ==
    /\ calls[p].pc = "idle"
    /\ UNCHANGED <<store, sched, clock, last>>
    /\ calls' = [calls EXCEPT ![p] =
          IF DOMAIN profiles = {}
          THEN Ends([Idle EXCEPT !.op = "update_leaderboard"], "ok")
          ELSE [Idle EXCEPT !.op = "update_leaderboard", !.pc = "load_profiles"]]

\* "for profile in profiles" begins: UserProfile.objects.all() runs and the
\* loop holds one object per row
LoadProfiles(p) ==
    /\ calls[p].pc = "load_profiles"
    /\ UNCHANGED <<store, sched, clock, last>>
    /\ \E f \in ProfileOrders(profiles) :
          LET objs == [i \in DOMAIN f |-> LoadedProfile(profiles, f[i])]
          IN  calls' = [calls EXCEPT ![p] =
                 IF Len(objs) = 0 THEN [calls[p] EXCEPT !.pc = "ranks_reset"]
                 ELSE [calls[p] EXCEPT !.self = Head(objs), !.loaded = Tail(objs),
                                       !.batch = DOMAIN profiles,
                                       !.pc = "stats_count"]]

\* the steps of update_stats
StatsSteps(p) == StatsCount(p) \/ StatsSum(p) \/ StatsAvg(p) \/ StatsSave(p)

\* the steps of update_all_ranks
RanksSteps(p) == RanksReset(p) \/ RanksRead(p) \/ RanksAssign(p)

\* the steps of submit_quiz up to attempt.save()
GradingSteps(p) ==
    \/ GetUser(p)
    \/ CreateUser(p)
    \/ GetOrCreateAttempt(p)
    \/ AnswerStep(p)
    \/ SaveAttempt(p)
    \/ GetOrCreateProfile(p)

-----------------------------------------------------------------------------
(* start_scheduler and stop_scheduler side by side.  The module global is    *)
(* read and written without a lock, so with two request threads more than    *)
(* one BackgroundScheduler object can exist: the objects are kept by number  *)
(* and the global is the number of the object it is bound to.                *)

\* scheduler = None
NoScheduler == 0

\* BackgroundScheduler(): not started, no job
NewScheduler == [state |-> "created", has_job |-> FALSE, instances |-> 0]

\* the scheduler's thread exists: started and not yet through shutdown()
Alive(i) == schedulers[i].state \in {"running", "shutdown"}

\* start_scheduler calls that are past the check and have yet to create their object
Binding == {w \in Workers : calls[w].pc = "start_bind"}

\* "if scheduler is not None: return" of start_scheduler
BeginStartScheduler(p) ==
    /\ calls[p].pc = "idle"
    /\ Len(schedulers) + Cardinality(Binding) < MaxSchedulers
    /\ UNCHANGED <<store, sched, clock, last>>
    /\ calls' = [calls EXCEPT ![p] =
          IF current # NoScheduler
          THEN Ends([Idle EXCEPT !.op = "start_scheduler"], "already")
          ELSE [Idle EXCEPT !.op = "start_scheduler", !.pc = "start_bind"]]

\* scheduler = BackgroundScheduler()
StartBind(p) ==
    /\ calls[p].pc = "start_bind"
    /\ schedulers' = Append(schedulers, NewScheduler)
    /\ current' = Len(schedulers) + 1
    /\ calls' = [calls EXCEPT ![p].pc = "start_add_job"]
    /\ UNCHANGED <<store, scheduler, job_instances, fired, started, skipped, jobs,
                   clock, last>>

\* scheduler.add_job(..., replace_existing=True) on the object the global is
\* bound to now; AttributeError if it is None
StartAddJob(p) ==
    /\ calls[p].pc = "start_add_job"
    /\ UNCHANGED <<store, scheduler, job_instances, fired, started, skipped, jobs,
                   current, clock, last>>
    /\ IF current = NoScheduler
       THEN /\ UNCHANGED schedulers
            /\ calls' = [calls EXCEPT ![p] = Ends(@, "ServerError")]
       ELSE /\ schedulers' = [schedulers EXCEPT ![current].has_job = TRUE]
            /\ calls' = [calls EXCEPT ![p].pc = "start_start"]

\* scheduler.start() on the object the global is bound to now:
\* SchedulerAlreadyRunningError unless that object is stopped
StartStart(p) ==
    /\ calls[p].pc = "start_start"
    /\ UNCHANGED <<store, scheduler, job_instances, fired, started, skipped, jobs,
                   current, clock, last>>
    /\ IF current = NoScheduler \/ Alive(current)
       THEN /\ UNCHANGED schedulers
            /\ calls' = [calls EXCEPT ![p] = Ends(@, "ServerError")]
       ELSE /\ schedulers' = [schedulers EXCEPT ![current].state = "running"]
            /\ calls' = [calls EXCEPT ![p] = Ends(@, "ok")]

\* "if scheduler is not None" of stop_scheduler
BeginStopScheduler(p) ==
    /\ calls[p].pc = "idle"
    /\ UNCHANGED <<store, sched, clock, last>>
    /\ calls' = [calls EXCEPT ![p] =
          IF current = NoScheduler
          THEN Ends([Idle EXCEPT !.op = "stop_scheduler"], "none")
          ELSE [Idle EXCEPT !.op = "stop_scheduler", !.pc = "stop_shutdown"]]

\* scheduler.shutdown() begins on the object the global is bound to now:
\* AttributeError if it is None, SchedulerNotRunningError unless it runs;
\* otherwise its timer stops and the call waits for the executions in progress
StopShutdown(p) ==
    /\ calls[p].pc = "stop_shutdown"
    /\ UNCHANGED <<store, scheduler, job_instances, fired, started, skipped, jobs,
                   current, clock, last>>
    /\ IF current = NoScheduler \/ schedulers[current].state # "running"
       THEN /\ UNCHANGED schedulers
            /\ calls' = [calls EXCEPT ![p] = Ends(@, "ServerError")]
       ELSE /\ schedulers' = [schedulers EXCEPT ![current].state = "shutdown"]
            /\ calls' = [calls EXCEPT ![p].target = current, ![p].pc = "stop_wait"]

\* scheduler.shutdown() returns: no execution is in progress, the thread has
\* ended and the job store is emptied
StopWait(p) ==
    /\ calls[p].pc = "stop_wait"
    /\ schedulers[calls[p].target].instances = 0
    /\ schedulers' = [schedulers EXCEPT ![calls[p].target].state = "stopped",
                                        ![calls[p].target].has_job = FALSE]
    /\ calls' = [calls EXCEPT ![p].pc = "stop_unbind"]
    /\ UNCHANGED <<store, scheduler, job_instances, fired, started, skipped, jobs,
                   current, clock, last>>

\* scheduler = None
StopUnbind(p) ==
    /\ calls[p].pc = "stop_unbind"
    /\ current' = NoScheduler
    /\ calls' = [calls EXCEPT ![p] = Ends(@, "ok")]
    /\ UNCHANGED <<store, scheduler, job_instances, fired, started, skipped, jobs,
                   schedulers, clock, last>>

\* the IntervalTrigger of object i comes due: its executor starts the job
\* unless max_instances executions of it are in progress on this object
TimerFires(i) ==
    /\ schedulers[i].state = "running"
    /\ schedulers[i].has_job
    /\ fired < MaxFirings
    /\ fired' = fired + 1
    /\ schedulers' = [schedulers EXCEPT ![i].instances =
                         IF @ < MaxInstances THEN @ + 1 ELSE @]
    /\ last' = Returned("interval",
                        IF schedulers[i].instances < MaxInstances THEN "started"
                        ELSE "skipped", 0, 0, 0)
    /\ UNCHANGED <<store, scheduler, job_instances, started, skipped, jobs,
                   current, clock, calls>>

\* an execution of update_leaderboard_job on object i's executor ends
ExecutionEnds(i) ==
    /\ schedulers[i].instances > 0
    /\ schedulers' = [schedulers EXCEPT ![i].instances = @ - 1]
    /\ UNCHANGED <<users, quizzes, questions, attempts, answers,
                   scheduler, job_instances, fired, started, skipped, jobs,
                   current, clock, calls>>
    /\ \E r \in LeaderboardRuns(profiles, attempts, quizzes) :
         /\ profiles' = r.profiles
         /\ last' = Returned("update_leaderboard_job",
                             IF r.raised THEN "failed" ELSE "ok", 0, 0, 0)

\* the steps of start_scheduler and stop_scheduler
StartSteps(p) == StartBind(p) \/ StartAddJob(p) \/ StartStart(p)
StopSteps(p) == StopShutdown(p) \/ StopWait(p) \/ StopUnbind(p)

-----------------------------------------------------------------------------
(* generate_ai_quiz: the retry loop around the call to the external model *)

\* max_retries = 3
MaxRetries == 3

\* the words the handler looks for in str(e).lower()
RetryKeywords == {"overloaded", "503", "502", "504", "timeout", "network", "fetch"}

\* error messages the model's client or the validation may raise, each as the
\* set of looked-for words it contains; a ValueError of the validation
\* ('Invalid question format') contains none
ErrorMessages ==
    { {}, {"overloaded"}, {"503"}, {"timeout"}, {"network"}, {"api_key"},
      {"quota"}, {"limit"}, {"api_key", "timeout"} }

\* what one model.generate_content call and the handling of its text can end in:
\* a quiz that parses and passes the validation, text json.loads rejects, or
\* an exception with a message
ModelAnswers ==
    {[kind |-> "quiz", keywords |-> {}], [kind |-> "bad_json", keywords |-> {}]}
        \cup {[kind |-> "error", keywords |-> m] : m \in ErrorMessages}

\* (mutation) every error taken as retryable
IsRetryableAlways(m) == TRUE

\* is_retryable = any(keyword in error_message for keyword in [...])
IsRetryable(m) == m \cap RetryKeywords # {}

\* the chain of "Return specific error messages": the first test that matches
ErrorResponse(m) ==
    IF "api_key" \in m THEN "InvalidApiKey503"
    ELSE IF "overloaded" \in m \/ "503" \in m THEN "Overloaded503"
    ELSE IF "quota" \in m \/ "limit" \in m THEN "QuotaExceeded429"
    ELSE IF "timeout" \in m THEN "Timeout504"
    ELSE "GenerationFailed500"

\* the requests the model draws from: whether GEMINI_API_KEY is set, the
\* difficulty and the question_count of the body
GenerateRequests ==
    [key : BOOLEAN, difficulty : {"any", "hard", "extreme"},
     question_count : {NonNumeric, 0, 10, 51}]

\* generate_ai_quiz up to the loop: the configuration check, int() of
\* question_count (ValueError for a non-number) and the two validations
BeginGenerateAiQuiz(p, req) ==
    /\ calls[p].pc = "idle"
    /\ UNCHANGED <<store, sched, clock, last>>
    /\ LET c == [Idle EXCEPT !.op = "generate_ai_quiz"]
       IN  calls' = [calls EXCEPT ![p] =
              IF ~req.key THEN Ends(c, "NotConfigured503")
              ELSE IF req.question_count = NonNumeric THEN Ends(c, "ServerError")
              ELSE IF req.difficulty \notin {"easy", "medium", "hard", "any"}
              THEN Ends(c, "ValidationError")
              ELSE IF req.question_count < 1 \/ req.question_count > 50
              THEN Ends(c, "ValidationError")
              ELSE [c EXCEPT !.pc = "generate", !.index = 0]]

\* one pass of "for attempt in range(max_retries)": the call to the model and
\* what the try block and its two handlers make of the answer; after the last
\* pass the loop ends and the final return answers
GenerateAttempt(p) ==
    /\ calls[p].pc = "generate"
    /\ UNCHANGED <<store, sched, clock, last>>
    /\ LET c == calls[p]
       IN  IF c.index >= MaxRetries
           THEN calls' = [calls EXCEPT ![p] = Ends(c, "RetriesExhausted500")]
           ELSE \E a \in ModelAnswers :
                  LET d == [c EXCEPT !.asked = @ + 1, !.heard = a]
                  IN  calls' = [calls EXCEPT ![p] =
                         IF a.kind = "quiz" THEN Ends(d, "ok")
                         ELSE IF a.kind = "bad_json"
                         THEN IF c.index < MaxRetries - 1
                              THEN [d EXCEPT !.pc = "sleep"]
                              ELSE Ends(d, "ParseFailed500")
                         ELSE IF IsRetryable(a.keywords) /\ c.index < MaxRetries - 1
                         THEN [d EXCEPT !.pc = "sleep"]
                         ELSE Ends(d, ErrorResponse(a.keywords))]

\* time.sleep(base_delay * (2 ** attempt)); continue
Backoff(p) ==
    /\ calls[p].pc = "sleep"
    /\ UNCHANGED <<store, sched, clock, last>>
    /\ calls' = [calls EXCEPT ![p].index = @ + 1, ![p].pc = "generate"]

-----------------------------------------------------------------------------
(* The submission path *)

StoreInit ==
    /\ users = {}
    /\ quizzes = FixtureQuizzes
    /\ questions = FixtureQuestions
    /\ attempts = {}
    /\ answers = <<>>
    /\ profiles = <<>>

SchedInit ==
    /\ scheduler = "None"
    /\ job_instances = 0
    /\ fired = 0
    /\ started = 0
    /\ skipped = 0
    /\ jobs = NoJobs
    /\ schedulers = <<>>
    /\ current = NoScheduler

\* the first reading of the clock
Epoch == 1

Init == StoreInit /\ SchedInit /\ clock = Epoch /\ last = NoOp /\ calls = NoCalls

\* a rejected submission never looks at its answers list
SubmitInputs(qid) ==
    IF QuizGettable(quizzes, qid) /\ ~quizzes[qid].is_ai_generated
    THEN AnswerInputs ELSE {<<>>}

Next ==
    \E u \in UserIds, qid \in DOMAIN quizzes \cup {MissingQuiz} :
        \E entries \in SubmitInputs(qid) :
            /\ Len(answers) + Len(entries) <= MaxAnswerRows
            /\ Submit(u, qid, entries)

Spec == Init /\ [][Next]_vars

-----------------------------------------------------------------------------
(* Scoring on a quiz of three questions worth 1, 2 and 4 *)

\* the bank with question 3 (4 points) belonging to quiz 1
ScenarioQuestions == [FixtureQuestions EXCEPT ![3].quiz = 1]

ScenarioInit ==
    /\ users = {}
    /\ quizzes = FixtureQuizzes
    /\ questions = ScenarioQuestions
    /\ attempts = {}
    /\ answers = <<>>
    /\ profiles = <<>>
    /\ SchedInit
    /\ clock = Epoch
    /\ last = NoOp
    /\ calls = NoCalls

NextScore ==
    \E u \in UserIds, entries \in AnswerInputs :
        /\ Len(answers) + Len(entries) <= MaxAnswerRows
        /\ Submit(u, 1, entries)

SpecScore == ScenarioInit /\ [][NextScore]_vars

-----------------------------------------------------------------------------
(* Aggregation and ranking: attempts of every kind, then the recomputations *)

\* answers lists that leave a completed attempt (2 of 3 points) or an
\* incomplete one
RankSubmitInputs ==
    { <<[question_id |-> 2, selected_choice_id |-> 3]>>,
      <<[question_id |-> NonNumeric, selected_choice_id |-> NoChoice]>> }

SubmitForRanking(U) ==
    \E u \in U, entries \in RankSubmitInputs :
        /\ Len(answers) + Len(entries) <= MaxAnswerRows
        /\ Submit(u, 1, entries)

SaveCustom(U) ==
    \E u \in U, c \in CustomInputs :
        /\ Cardinality(CustomQuizzes) < MaxCustomQuizzes
        /\ SaveCustomQuizResult(u, c[1], c[2], c[3])

NextRank ==
    \/ SubmitForRanking(UserIds)
    \/ SaveCustom(UserIds)
    \/ UpdateAllRanks
    \/ UpdateLeaderboard

SpecRank == Init /\ [][NextRank]_vars

\* the user whose profile is opened and recomputed on its own
StatsUsers == {1}

NextStats ==
    \/ SubmitForRanking(UserIds)
    \/ SaveCustom(UserIds)
    \/ \E u \in StatsUsers : UserProfileView(u)
    \/ \E u \in StatsUsers : UpdateStats(u)
    \/ UpdateLeaderboard

SpecStats == Init /\ [][NextStats]_vars

-----------------------------------------------------------------------------
(* Point values edited between submissions, and results the client computed *)

\* one custom result: 5 of 10 on a quiz that counts
CleanupCustomInputs == { <<5, 10, FALSE>> }

\* save-custom-result with a result from C, while fewer than n custom quizzes
\* exist
SaveCustomFrom(U, C, n) ==
    \E u \in U, c \in C :
        /\ Cardinality(CustomQuizzes) < n
        /\ SaveCustomQuizResult(u, c[1], c[2], c[3])

\* answers lists naming every question of quiz 1 once: both right, one right,
\* and one that fails before any row is written
PointsSubmitInputs ==
    { <<[question_id |-> 1, selected_choice_id |-> 1],
        [question_id |-> 2, selected_choice_id |-> 3]>>,
      <<[question_id |-> 1, selected_choice_id |-> 2],
        [question_id |-> 2, selected_choice_id |-> 3]>>,
      <<[question_id |-> NonNumeric, selected_choice_id |-> NoChoice]>> }

\* results a client may send to save-custom-result: any two integers pass
\* the isinstance check
PointsCustomInputs == { <<5, 10, FALSE>>, <<7, 5, FALSE>>, <<-1, 5, TRUE>> }

SubmitOnce ==
    \E u \in UserIds, entries \in PointsSubmitInputs :
        /\ Len(answers) + Len(entries) <= MaxAnswerRows
        /\ Submit(u, 1, entries)

NextPoints ==
    \/ SubmitOnce
    \/ UpdatePoints
    \/ SaveCustomFrom(UserIds, PointsCustomInputs, MaxCustomQuizzes)

SpecPoints == Init /\ [][NextPoints]_vars

-----------------------------------------------------------------------------
(* The leaderboards read between submissions, custom results and profile views *)

Limits == 1..MaxLimit

NextBoards ==
    \/ SubmitForRanking(UserIds)
    \/ SaveCustomFrom(UserIds, CleanupCustomInputs, MaxCleanupCustoms)
    \/ \E u \in UserIds : UserProfileView(u)
    \/ Tick
    \/ \E limit \in Limits : GlobalLeaderboard(limit)
    \/ \E qid \in DOMAIN FixtureQuizzes, limit \in Limits : QuizLeaderboard(qid, limit)

SpecBoards == Init /\ [][NextBoards]_vars

-----------------------------------------------------------------------------
(* Attempts that come and go: submissions, custom results and cleanups *)

Cleanup == \E cutoff \in NoCutoff..(clock + 1) : CleanupQuizData(cutoff)

NextCleanup ==
    \/ SubmitForRanking(UserIds)
    \/ SaveCustomFrom(StatsUsers, CleanupCustomInputs, MaxCleanupCustoms)
    \/ Tick
    \/ Cleanup

SpecCleanup == Init /\ [][NextCleanup]_vars

-----------------------------------------------------------------------------
(* The scheduler beside a little request traffic *)

NextSched ==
    \/ StartScheduler
    \/ StopSchedulerBegin
    \/ StopSchedulerEnd
    \/ StopSchedulerNone
    \/ IntervalFires
    \/ JobRuns
    \/ SubmitForRanking(UserIds)
    \/ \E u \in UserIds : UserProfileView(u)
    \/ GetSchedulerStatus

SpecSched == Init /\ [][NextSched]_vars

\* the executor's worker thread keeps running whatever the scheduler does, so
\* an execution that has started ends
SpecSchedFair == SpecSched /\ WF_vars(JobRuns)

-----------------------------------------------------------------------------
(* The periodic job over profiles whose statistics cannot be computed *)

\* save-custom-result with score 0 of total_points 0 on a quiz that counts
SaveCustomZero(U) ==
    \E u \in U :
        /\ Cardinality(CustomQuizzes) < MaxCustomQuizzes
        /\ SaveCustomQuizResult(u, 0, 0, FALSE)

NextJob ==
    \/ StartScheduler
    \/ IntervalFires
    \/ JobRuns
    \/ SubmitForRanking(UserIds)
    \/ SaveCustomZero(StatsUsers)
    \/ \E u \in StatsUsers : UserProfileView(u)

SpecJob == Init /\ [][NextJob]_vars

-----------------------------------------------------------------------------
(* Ranking among profiles of equal total score *)

\* custom results of 2 of 10 and 5 of 10: with a submit scoring 2 of 3 they
\* give profiles of equal total_score and different averages
OrderCustomInputs == { <<2, 10, FALSE>>, <<5, 10, FALSE>> }

NextOrder ==
    \/ SubmitForRanking(UserIds)
    \/ SaveCustomFrom(UserIds, OrderCustomInputs, MaxCustomQuizzes)
    \/ \E u \in UserIds : UserProfileView(u)
    \/ UpdateAllRanks
    \/ UpdateLeaderboard

SpecOrder == Init /\ [][NextOrder]_vars

-----------------------------------------------------------------------------
(* Two submissions of one user for one quiz, side by side *)

\* answers lists worth 1 point and 2 points
RaceInputs ==
    { <<[question_id |-> 1, selected_choice_id |-> 1]>>,
      <<[question_id |-> 2, selected_choice_id |-> 3]>> }

\* a worker takes a submit while the Answer table has room for its rows
SubmitBegins(p, U, inputs) ==
    \E u \in U, entries \in inputs :
        /\ Len(answers) + PendingRows(Workers) + Len(entries) <= MaxAnswerRows
        /\ BeginSubmit(p, u, 1, entries)

NextRace ==
    \E p \in Workers :
        \/ SubmitBegins(p, StatsUsers, RaceInputs)
        \/ GradingSteps(p)
        \/ StatsSteps(p)
        \/ RanksSteps(p)

SpecRace == Init /\ [][NextRace]_vars

-----------------------------------------------------------------------------
(* Submissions of two users, side by side: worker p serves user p *)

NextSubmitters ==
    \E p \in Workers :
        \/ SubmitBegins(p, {p}, RaceInputs)
        \/ GradingSteps(p)
        \/ StatsSteps(p)
        \/ RanksSteps(p)

SpecSubmitters == Init /\ [][NextSubmitters]_vars

-----------------------------------------------------------------------------
(* The update_leaderboard command beside a submission *)

\* the tables after user 1 submitted quiz 1 with [(question 1, choice 1)]:
\* one completed attempt of 1 point, one Answer row, one profile at rank 1
RankedInit ==
    /\ users = {1}
    /\ quizzes = FixtureQuizzes
    /\ questions = FixtureQuestions
    /\ attempts = {CompleteAttempt(AttemptGetOrCreate({}, FixtureQuestions, 1, 1, Epoch),
                                   1, Epoch)}
    /\ answers = <<[attempt |-> 1, question |-> 1, selected_choice |-> 1,
                    is_correct |-> TRUE]>>
    /\ profiles = (1 :> [total_score |-> 1, total_quizzes_completed |-> 1,
                         average_score_percentage |-> 3333, rank |-> 1])
    /\ SchedInit
    /\ clock = Epoch
    /\ last = NoOp
    /\ calls = NoCalls

\* the job thread and the request worker
JobWorker == 1
RequestWorker == 2

\* answers lists of one pair, worth 2 points and worth nothing
RecomputeInputs ==
    { <<[question_id |-> 2, selected_choice_id |-> 3]>>,
      <<[question_id |-> 1, selected_choice_id |-> 2]>> }

NextRecompute ==
    \/ BeginUpdateLeaderboard(JobWorker)
    \/ LoadProfiles(JobWorker)
    \/ SubmitBegins(RequestWorker, {2}, RecomputeInputs)
    \/ GradingSteps(RequestWorker)
    \/ \E p \in Workers : StatsSteps(p)
    \/ \E p \in Workers : RanksSteps(p)

SpecRecompute == RankedInit /\ [][NextRecompute]_vars

-----------------------------------------------------------------------------
(* Two update_stats calls for one user, side by side, between requests *)

NextStatsPair ==
    \/ SubmitForRanking(StatsUsers)
    \/ SaveCustomFrom(StatsUsers, CleanupCustomInputs, MaxCleanupCustoms)
    \/ \E u \in StatsUsers : UserProfileView(u)
    \/ \E p \in Workers, u \in StatsUsers : BeginUpdateStats(p, u)
    \/ \E p \in Workers : StatsSteps(p)

SpecStatsPair == Init /\ [][NextStatsPair]_vars

-----------------------------------------------------------------------------
(* The periodic job over stale profiles and one it cannot compute *)

\* the user whose results are 5 of 10, beside the one of StatsUsers whose
\* results are 0 of 0
StaleUsers == {2}

NextJobFails ==
    \/ StartScheduler
    \/ IntervalFires
    \/ JobRuns
    \/ SubmitForRanking(UserIds)
    \/ SaveCustomZero(StatsUsers)
    \/ SaveCustomFrom(StaleUsers, CleanupCustomInputs, MaxCustomQuizzes)
    \/ \E u \in UserIds : UserProfileView(u)

SpecJobFails == Init /\ [][NextJobFails]_vars

\* the interval trigger comes due for as long as the scheduler runs, and the
\* executor's thread runs every execution it was handed
SpecJobFailsFair == SpecJobFails /\ WF_vars(IntervalFires) /\ WF_vars(JobRuns)

-----------------------------------------------------------------------------
(* The question bank edited between submissions *)

NextBank ==
    \/ SubmitOnce
    \/ UpdatePoints
    \/ ImportQuestion(1)
    \/ Tick
    \/ SaveCustomFrom(StatsUsers, CleanupCustomInputs, MaxCleanupCustoms)

SpecBank == Init /\ [][NextBank]_vars

-----------------------------------------------------------------------------
(* One run of the periodic job, statement by statement, between requests *)

NextCommand ==
    \/ SubmitForRanking(UserIds)
    \/ SaveCustomZero(StatsUsers)
    \/ \E u \in UserIds : UserProfileView(u)
    \/ BeginUpdateLeaderboard(JobWorker)
    \/ LoadProfiles(JobWorker)
    \/ StatsSteps(JobWorker)
    \/ RanksSteps(JobWorker)

SpecCommand == Init /\ [][NextCommand]_vars

-----------------------------------------------------------------------------
(* Completed attempts under everything that runs after them *)

\* answers lists of one pair: right, wrong, and one that fails
FrozenInputs ==
    { <<[question_id |-> 1, selected_choice_id |-> 1]>>,
      <<[question_id |-> 1, selected_choice_id |-> 2]>>,
      <<[question_id |-> NonNumeric, selected_choice_id |-> NoChoice]>> }

NextFrozen ==
    \/ \E u \in UserIds, entries \in FrozenInputs :
          /\ Len(answers) + Len(entries) <= MaxAnswerRows
          /\ Submit(u, 1, entries)
    \/ \E u \in UserIds : UpdateStats(u)
    \/ UpdateAllRanks
    \/ StartScheduler
    \/ IntervalFires
    \/ JobRuns
    \/ Cleanup

SpecFrozen == Init /\ [][NextFrozen]_vars

-----------------------------------------------------------------------------
(* Two request threads posting start and stop to scheduler/ *)

NextStartStop ==
    \/ \E p \in Workers : BeginStartScheduler(p)
    \/ \E p \in Workers : StartSteps(p)
    \/ \E p \in Workers : BeginStopScheduler(p)
    \/ \E p \in Workers : StopSteps(p)
    \/ \E i \in DOMAIN schedulers : TimerFires(i)
    \/ \E i \in DOMAIN schedulers : ExecutionEnds(i)

SpecStartStop == Init /\ [][NextStartStop]_vars

-----------------------------------------------------------------------------
(* Requests for an AI quiz, two at a time *)

NextGenerate ==
    \/ \E p \in Workers, req \in GenerateRequests : BeginGenerateAiQuiz(p, req)
    \/ \E p \in Workers : GenerateAttempt(p)
    \/ \E p \in Workers : Backoff(p)

SpecGenerate == Init /\ [][NextGenerate]_vars

\* a request thread keeps running: the call to the model returns or raises,
\* and a sleep ends
SpecGenerateFair ==
    SpecGenerate /\ \A p \in Workers : WF_vars(GenerateAttempt(p) \/ Backoff(p))

-----------------------------------------------------------------------------
(* Properties of the submission path (checked under Spec) *)

RowsOf(aid) == Len(SelectSeq(answers, LAMBDA r : r.attempt = aid))

Rejections == {"QuizNotFound", "SubmissionNotAllowed"}

\* C1: a submit for a pair whose attempt is completed (on a quiz that is still
\* active and gradeable) answers "Quiz already completed" and leaves the
\* QuizAttempt and Answer tables as they were, and no pair ever has two
\* completed attempts.
C1_AlreadyCompletedRejected ==
    /\ [](\A a, b \in attempts :
            (a.user = b.user /\ a.quiz = b.quiz /\ a.is_completed /\ b.is_completed)
                => a = b)
    /\ [][\A a \in attempts :
            (a.is_completed /\ last'.op = "submit" /\ last'.attempt = a.id)
                => /\ last'.result = "AlreadyCompleted"
                   /\ attempts' = attempts
                   /\ answers' = answers
                   /\ profiles' = profiles]_vars

C1_Witness ==
    /\ last.op = "submit"
    /\ last.result = "AlreadyCompleted"
    /\ \E a \in attempts : a.id = last.attempt /\ a.is_completed /\ RowsOf(a.id) > 0

\* C2: every completed attempt has 0 <= score <= total_points, whatever answers
\* list completed it.
C2_ScoreWithinTotal ==
    \A a \in attempts : a.is_completed => (0 <= a.score /\ a.score <= a.total_points)

\* C7: an attempt that is not completed has no Answer row, and a submit that
\* succeeds leaves its attempt with exactly the Answer rows that call wrote.
C7_AllOrNothing ==
    /\ \A a \in attempts : ~a.is_completed => RowsOf(a.id) = 0
    /\ (last.op = "submit" /\ last.result = "ok") => RowsOf(last.attempt) = last.processed

\* C9: a submit naming a quiz that does not exist, is inactive or is
\* AI-generated is rejected and changes no table: no user, attempt, answer or
\* profile is created or altered.
C9_RejectedSubmitNoEffect ==
    [][\A u \in UserIds, qid \in DOMAIN quizzes \cup {MissingQuiz},
         entries \in SeqsUpTo(AnswerEntries, 1) :
            ( /\ \/ qid \notin DOMAIN quizzes
                 \/ ~quizzes[qid].is_active
                 \/ quizzes[qid].is_ai_generated
              /\ Submit(u, qid, entries) )
                => /\ last'.result \in Rejections
                   /\ UNCHANGED <<users, quizzes, questions, attempts, answers, profiles>>]_vars

C9_Witness ==
    /\ last.op = "submit"
    /\ last.result = "SubmissionNotAllowed"
    /\ users = {}
    /\ attempts = {}

\* the Answer rows the last call wrote: the last rows of the table
RowsOfLastCall == SubSeq(answers, Len(answers) - last.processed + 1, Len(answers))

\* the points a row stands for: those of its question when the choice it
\* resolved to is marked correct
PointsOfRow(r) ==
    IF r.selected_choice # NoChoice /\ Choices[r.selected_choice].is_correct
    THEN questions[r.question].points
    ELSE 0

AttemptById(aid) == CHOOSE a \in attempts : a.id = aid

\* C11: after a successful submit the attempt's score is the sum, over the
\* Answer rows that call wrote, of the question's points where the resolved
\* choice is correct and 0 elsewhere, and its total_points is the sum of the
\* points of all questions of the quiz; the 2- and 4-point questions answered
\* correctly on the quiz worth 1 + 2 + 4 give 6 of 7.
C11_ScoreIsSumOfPoints ==
    (last.op = "submit" /\ last.result = "ok") =>
        LET a    == AttemptById(last.attempt)
            rows == RowsOfLastCall
            n    == Len(rows)
        IN  /\ n = last.processed
            /\ \A i \in 1..n : rows[i].attempt = a.id
            /\ a.score = SumFn([i \in 1..n |-> PointsOfRow(rows[i])], 1..n)
            /\ a.total_points
                   = SumFn([x \in DOMAIN questions |-> questions[x].points],
                           {x \in DOMAIN questions : questions[x].quiz = a.quiz})
            /\ ( /\ n = 2
                 /\ {<<rows[i].question, rows[i].selected_choice>> : i \in 1..n}
                        = {<<2, 3>>, <<3, 4>>} )
                   => (a.score = 6 /\ a.total_points = 7)

C11_Witness ==
    /\ last.op = "submit"
    /\ last.result = "ok"
    /\ last.processed = 2
    /\ {<<RowsOfLastCall[i].question, RowsOfLastCall[i].selected_choice>> : i \in 1..2}
           = {<<2, 3>>, <<3, 4>>}
    /\ AttemptById(last.attempt).score = 6
    /\ AttemptById(last.attempt).total_points = 7

\* C12: the rank a successful submit answers with is the rank stored for the
\* submitter when the call returns, and it is at least 1.
C12_ReturnedRankIsStored ==
    (last.op = "submit" /\ last.result = "ok") =>
        /\ last.rank = profiles[last.user].rank
        /\ last.rank >= 1

-----------------------------------------------------------------------------
(* Properties of aggregation and ranking (checked under SpecRank) *)

HasCompletedQuizzes == {u \in DOMAIN profiles : profiles[u].total_quizzes_completed > 0}

RanksJustRecomputed ==
    \/ last.op = "update_all_ranks"
    \/ last.op \in {"submit", "update_leaderboard"} /\ last.result = "ok"

\* C3: when a rank recomputation has just completed, the ranks of the profiles
\* with total_quizzes_completed > 0 are exactly 1..N, each used once.
C3_DenseRanks ==
    RanksJustRecomputed =>
        /\ {profiles[u].rank : u \in HasCompletedQuizzes}
               = 1..Cardinality(HasCompletedQuizzes)
        /\ \A u, v \in HasCompletedQuizzes :
               u # v => profiles[u].rank # profiles[v].rank

C3_Witness ==
    /\ last.op = "update_all_ranks"
    /\ Cardinality(HasCompletedQuizzes) = 2
    /\ \E u, v \in HasCompletedQuizzes :
          profiles[u].total_score > profiles[v].total_score

\* C5: when a rank recomputation has just completed, of two ranked profiles
\* with equal total_score and equal average_score_percentage the one with the
\* lower user id has the smaller rank.
C5_LowerIdRanksFirst ==
    RanksJustRecomputed =>
        \A u, v \in HasCompletedQuizzes :
            ( /\ u < v
              /\ profiles[u].total_score = profiles[v].total_score
              /\ profiles[u].average_score_percentage
                     = profiles[v].average_score_percentage )
                => profiles[u].rank < profiles[v].rank

\* C6: a rank recomputation that directly follows another one leaves every
\* profile's rank as it was.
C6_RecomputeIdempotent ==
    [][(last.op = "update_all_ranks" /\ last'.op = "update_all_ranks")
          => profiles' = profiles]_vars

QualifyingAttempts(u) ==
    {a \in attempts : a.user = u /\ a.is_completed /\ ~quizzes[a.quiz].is_ai_generated}

\* C8: after update_stats for a user, total_quizzes_completed is the number and
\* total_score the sum of scores of that user's completed attempts on quizzes
\* that are not AI-generated; and after a leaderboard run a profile without
\* such attempts has zero aggregates and rank 0.
C8_StatsCountQualifyingAttempts ==
    /\ (last.op = "update_stats" /\ last.result = "ok") =>
          /\ profiles[last.user].total_quizzes_completed
                 = Cardinality(QualifyingAttempts(last.user))
          /\ profiles[last.user].total_score
                 = SumFn([a \in attempts |-> a.score], QualifyingAttempts(last.user))
    /\ (last.op = "update_leaderboard" /\ last.result = "ok") =>
          \A u \in DOMAIN profiles :
              QualifyingAttempts(u) = {} => profiles[u] = NewProfile

C8_Witness ==
    /\ last.op = "update_stats"
    /\ last.result = "ok"
    /\ \E a \in attempts :
          a.user = last.user /\ a.is_completed /\ quizzes[a.quiz].is_ai_generated
    /\ \E a \in attempts : a.user = last.user /\ ~a.is_completed
    /\ profiles[last.user].total_quizzes_completed = 1

ScorePairsOf(u) == {<<a.score, a.total_points>> : a \in QualifyingAttempts(u)}

\* C10: after update_stats for a user, average_score_percentage is 0 when the
\* user has no qualifying attempt and otherwise 100 * sum(score) /
\* sum(total_points) rounded to two decimals (where that sum is positive);
\* attempts 5/10 and 3/5 give 53.33.
C10_RatioOfMeans ==
    (last.op = "update_stats" /\ last.result = "ok") =>
        LET S  == QualifyingAttempts(last.user)
            ts == SumFn([a \in attempts |-> a.score], S)
            tt == SumFn([a \in attempts |-> a.total_points], S)
            avg == profiles[last.user].average_score_percentage
        IN  /\ S = {} => avg = 0
            /\ (S # {} /\ tt > 0) => avg = (20000 * ts + tt) \div (2 * tt)
            /\ (Cardinality(S) = 2 /\ ScorePairsOf(last.user) = {<<5, 10>>, <<3, 5>>})
                   => avg = 5333

C10_Witness ==
    /\ last.op = "update_stats"
    /\ last.result = "ok"
    /\ Cardinality(QualifyingAttempts(last.user)) = 2
    /\ ScorePairsOf(last.user) = {<<5, 10>>, <<3, 5>>}
    /\ profiles[last.user].average_score_percentage = 5333

-----------------------------------------------------------------------------
(* Properties of the scheduler (checked under SpecSched) *)

\* C4: at most one execution of the leaderboard job is in progress at any
\* moment, and every firing either started an execution at once or was dropped:
\* none is kept to run later.
C4_SingleInstance ==
    /\ job_instances <= 1
    /\ started + skipped = fired
    /\ job_instances <= started

C4_Witness ==
    /\ last.op = "interval"
    /\ last.result = "skipped"
    /\ job_instances = 1
    /\ skipped >= 1

\* C13: start_scheduler() called while the scheduler is running answers
\* normally and changes nothing: the scheduler, its one job
\* 'leaderboard_update_job', the job's next fire time and the executions in
\* progress are as before.
C13_StartWhileRunningIsNoOp ==
    [][(scheduler = "running" /\ last'.op = "start_scheduler")
          => /\ last'.result = "already"
             /\ DOMAIN jobs' = {JobId}
             /\ UNCHANGED <<scheduler, jobs, job_instances, fired, started, skipped>>]_vars

C13_Witness ==
    /\ last.op = "start_scheduler"
    /\ last.result = "already"
    /\ scheduler = "running"
    /\ jobs[JobId].next_run > 1

\* C15: an execution of the job begins only while the scheduler is running,
\* so none begins between a stop and the next start; an execution in progress
\* when stop_scheduler() is called ends only by the job finishing, and it does
\* finish.
C15_StopCancelsTimerNotJob ==
    /\ [][started' # started => (scheduler = "running" /\ scheduler' = "running")]_vars
    /\ [][job_instances' < job_instances => last'.op = "update_leaderboard_job"]_vars
    /\ (scheduler = "shutdown" /\ job_instances > 0) ~> (job_instances = 0)

C15_Witness ==
    /\ scheduler = "shutdown"
    /\ last.op = "update_leaderboard_job"
    /\ last.result = "ok"
    /\ job_instances = 0
    /\ DOMAIN profiles # {}

Stopped == [status |-> "stopped", jobs |-> <<>>]

\* C16: get_scheduler_status() answers "stopped" with no jobs initially and
\* after a stop, "running" with the one leaderboard job and its next fire time
\* after a start that took effect (also one that follows a stop), and no other
\* operation changes the status it answers.
C16_StatusFollowsStartStop ==
    /\ [](last = NoOp => StatusReport(scheduler, jobs) = Stopped)
    /\ [](last.op = "get_scheduler_status" =>
             /\ last.result = StatusReport(scheduler, jobs).status
             /\ last.listing = StatusReport(scheduler, jobs).jobs)
    /\ [][(last'.op = "start_scheduler" /\ last'.result = "ok") =>
             /\ StatusReport(scheduler, jobs) = Stopped
             /\ StatusReport(scheduler', jobs').status = "running"
             /\ Len(StatusReport(scheduler', jobs').jobs) = 1
             /\ StatusReport(scheduler', jobs').jobs[1].id = JobId
             /\ StatusReport(scheduler', jobs').jobs[1].next_run >= 1]_vars
    /\ [][(last'.op = "stop_scheduler" /\ last'.result \in {"waiting", "ok"}) =>
             StatusReport(scheduler', jobs') = Stopped]_vars
    /\ [][~(\/ last'.op = "start_scheduler" /\ last'.result = "ok"
            \/ last'.op = "stop_scheduler" /\ last'.result \in {"waiting", "ok"}) =>
             /\ StatusReport(scheduler', jobs').status = StatusReport(scheduler, jobs).status
             /\ Len(StatusReport(scheduler', jobs').jobs)
                    = Len(StatusReport(scheduler, jobs).jobs)]_vars

C16_Witness ==
    /\ last.op = "get_scheduler_status"
    /\ last.result = "running"
    /\ Len(last.listing) = 1
    /\ last.listing[1].next_run = 1
    /\ fired >= 1

-----------------------------------------------------------------------------
(* Properties of the attempt table under cleanups (checked under SpecCleanup) *)

\* C17: no (user, quiz) pair ever has two QuizAttempt rows, whatever submits,
\* custom results and cleanups came before.
C17_OneAttemptPerPair ==
    \A a, b \in attempts : (a.user = b.user /\ a.quiz = b.quiz) => a = b

\* a submit has created an attempt anew after a cleanup deleted an earlier one
C17_Witness ==
    /\ last.op = "submit"
    /\ last.result = "ok"
    /\ last.attempt = MaxOf({a.id : a \in attempts})
    /\ last.attempt > Cardinality(attempts)
    /\ Cardinality(attempts) >= 2

-----------------------------------------------------------------------------
(* Properties of stored scores under point edits (checked under SpecPoints) *)

\* C18: every completed attempt has a score between 0 and its total_points,
\* whether submit_quiz or save_custom_quiz_result stored it and whatever
\* update_points did between its creation and its completion.
C18_CompletedScoreBounded ==
    \A a \in attempts : a.is_completed => a.score \in 0..a.total_points

-----------------------------------------------------------------------------
(* Properties of the leaderboards (checked under SpecBoards) *)

\* C19: the quiz leaderboard has at most limit entries, each a completed
\* attempt of that quiz and none twice, ordered by score descending and among
\* equal scores by completion time ascending, the entry at position i carrying
\* rank i.
C19_QuizLeaderboardOrdered ==
    (last.op = "quiz_leaderboard" /\ last.result = "ok") =>
        LET L == last.listing
        IN  /\ Len(L) <= last.limit
            /\ \A i \in DOMAIN L :
                  /\ L[i].rank = i
                  /\ \E a \in attempts :
                        /\ a.id = L[i].attempt
                        /\ a.quiz = L[i].quiz
                        /\ a.is_completed
                        /\ a.user = L[i].user
                        /\ a.score = L[i].score
                        /\ a.completed_at = L[i].completed_at
            /\ \A i, j \in DOMAIN L :
                  i < j =>
                    /\ L[i].attempt # L[j].attempt
                    /\ L[i].quiz = L[j].quiz
                    /\ \/ L[i].score > L[j].score
                       \/ /\ L[i].score = L[j].score
                          /\ L[i].completed_at <= L[j].completed_at

\* C20: the global leaderboard has at most limit entries, all of profiles with
\* total_quizzes_completed > 0, none of rank 0, in strictly increasing rank
\* from rank 1.
C20_GlobalLeaderboardRanked ==
    (last.op = "global_leaderboard") =>
        LET L == last.listing
        IN  /\ Len(L) <= last.limit
            /\ \A i \in DOMAIN L :
                  /\ L[i].total_quizzes_completed > 0
                  /\ L[i].rank >= 1
            /\ Len(L) > 0 => L[1].rank = 1
            /\ \A i, j \in DOMAIN L : i < j => L[i].rank < L[j].rank

-----------------------------------------------------------------------------
(* Properties of a failing job (checked under SpecJob) *)

\* C14: an execution of the job that fails ends like any other: the scheduler
\* and its registered job are untouched, the execution slot is free again, and
\* the next interval firing starts a new execution.
C14_JobFailureIsContained ==
    /\ [][last'.op = "update_leaderboard_job" =>
             /\ scheduler' = scheduler
             /\ jobs' = jobs
             /\ job_instances' = job_instances - 1]_vars
    /\ []((last.op = "update_leaderboard_job" /\ last.result = "failed") =>
             /\ scheduler # "None"
             /\ JobId \in DOMAIN jobs
             /\ job_instances = 0)
    /\ [][( /\ last.op = "update_leaderboard_job"
            /\ last.result = "failed"
            /\ last'.op = "interval" ) =>
             (last'.result = "started" /\ job_instances' = 1)]_vars

C14_Witness ==
    /\ last.op = "update_leaderboard_job"
    /\ last.result = "failed"
    /\ scheduler = "running"
    /\ fired < MaxFirings

-----------------------------------------------------------------------------
(* Properties of the answers loop (checked under Spec) *)

\* the pair names a question of the quiz
PairBelongs(qid, e) ==
    e.question_id \in DOMAIN questions /\ questions[e.question_id].quiz = qid

\* the pair names a choice of its question
ChoiceBelongs(e) ==
    /\ e.selected_choice_id \in DOMAIN Choices
    /\ Choices[e.selected_choice_id].question = e.question_id

\* C30: in a submit that is graded, a pair whose question id does not belong to
\* the quiz produces no Answer row and no score change and the submission does
\* not fail; a pair whose choice id does not belong to its question produces
\* an Answer row with is_correct = false and no selected choice, worth 0 points.
C30_UnknownPairsTolerated ==
    [][\A u \in UserIds, entries \in AnswerInputs :
          ( /\ \A a \in AttemptsOf(attempts, u, 1) : ~a.is_completed
            /\ Submit(u, 1, entries) )
          => LET kept == SelectSeq(entries, LAMBDA e : PairBelongs(1, e))
                 n    == Len(kept)
                 rows == SubSeq(answers', Len(answers) + 1, Len(answers'))
                 worth == [i \in 1..n |->
                             IF ChoiceBelongs(kept[i])
                                  /\ Choices[kept[i].selected_choice_id].is_correct
                             THEN questions[kept[i].question_id].points ELSE 0]
             IN  /\ last'.result = "ok"
                 /\ Len(rows) = n
                 /\ \A i \in 1..n :
                       /\ rows[i].question = kept[i].question_id
                       /\ ~ChoiceBelongs(kept[i]) =>
                             /\ rows[i].is_correct = FALSE
                             /\ rows[i].selected_choice = NoChoice
                 /\ \E a \in attempts' :
                       /\ a.id = last'.attempt
                       /\ a.is_completed
                       /\ a.score = SumFn(worth, 1..n)]_vars

-----------------------------------------------------------------------------
(* Properties of the rank order (checked under SpecOrder) *)

Ranked == {u \in DOMAIN profiles : profiles[u].rank > 0}

\* C27: when a rank recomputation has just completed, for every two ranked
\* profiles p and q with rank(p) < rank(q): total_score(p) > total_score(q), or
\* the total scores are equal and average_score_percentage(p) >=
\* average_score_percentage(q).
C27_RankFollowsScore ==
    RanksJustRecomputed =>
        \A p, q \in Ranked :
            profiles[p].rank < profiles[q].rank =>
                \/ profiles[p].total_score > profiles[q].total_score
                \/ /\ profiles[p].total_score = profiles[q].total_score
                   /\ profiles[p].average_score_percentage
                          >= profiles[q].average_score_percentage

C27_Witness ==
    /\ last.op = "update_all_ranks"
    /\ \E p, q \in Ranked :
          /\ profiles[p].rank = 1
          /\ profiles[q].rank = 2
          /\ profiles[p].total_score = profiles[q].total_score
          /\ profiles[p].average_score_percentage > profiles[q].average_score_percentage

-----------------------------------------------------------------------------
(* Properties of the rank reset (checked under SpecCleanup) *)

\* C26: when a rank recomputation has just completed, every profile with
\* total_quizzes_completed = 0 has rank 0; and a cleanup that takes the last
\* qualifying attempt of a profile that held a positive rank leaves that
\* profile with zero aggregates and rank 0.
C26_UnqualifiedRankZero ==
    /\ [](RanksJustRecomputed \/ (last.op = "cleanup_quiz_data" /\ last.result = "ok")
            => \A u \in DOMAIN profiles :
                  profiles[u].total_quizzes_completed = 0 => profiles[u].rank = 0)
    /\ [][(last'.op = "cleanup_quiz_data" /\ last'.result = "ok")
            => \A u \in DOMAIN profiles :
                  ( /\ profiles[u].rank > 0
                    /\ {a \in attempts' : a.user = u /\ a.is_completed
                                            /\ ~quizzes[a.quiz].is_ai_generated} = {} )
                  => profiles'[u] = NewProfile]_vars

C26_Witness ==
    /\ last.op = "cleanup_quiz_data"
    /\ last.result = "ok"
    /\ last.processed > 0
    /\ \E u, v \in DOMAIN profiles :
          /\ profiles[u] = NewProfile
          /\ profiles[v].rank = 1
          /\ profiles[v].total_quizzes_completed > 0

-----------------------------------------------------------------------------
(* Properties of update_stats on attempts without points (checked under SpecStats) *)

\* C29: update_stats never fails: for a user with no qualifying attempt it
\* stores 0, 0 and 0.0, and for any qualifying attempts, also when each of them
\* has total_points = 0, it completes and stores an average_score_percentage.
C29_UpdateStatsNeverFails ==
    last.op = "update_stats" =>
        /\ last.result = "ok"
        /\ QualifyingAttempts(last.user) = {} =>
              /\ profiles[last.user].total_quizzes_completed = 0
              /\ profiles[last.user].total_score = 0
              /\ profiles[last.user].average_score_percentage = 0
        /\ QualifyingAttempts(last.user) # {} =>
              /\ profiles[last.user].total_quizzes_completed
                     = Cardinality(QualifyingAttempts(last.user))
              /\ profiles[last.user].average_score_percentage \in Nat

-----------------------------------------------------------------------------
(* Properties of calls side by side (checked under SpecRace) *)

\* both workers ran a submit to its end
BothSubmitted ==
    \A p \in Workers : calls[p].op = "submit" /\ calls[p].pc = "done"

\* C21: of two submit calls for the same (user, quiz) pair, however their
\* steps interleave, exactly one succeeds and the other is rejected with
\* "Quiz already completed", and the attempt has the score and the Answer rows
\* of the successful call alone.
C21_CompletedExactlyOnce ==
    \A p, q \in Workers :
        ( /\ p # q
          /\ BothSubmitted
          /\ calls[p].user = calls[q].user
          /\ calls[p].quiz = calls[q].quiz )
        => /\ {calls[p].result, calls[q].result} = {"ok", "AlreadyCompleted"}
           /\ calls[p].result = "ok" =>
                 \E a \in attempts :
                    /\ a.user = calls[p].user
                    /\ a.quiz = calls[p].quiz
                    /\ a.is_completed
                    /\ a.score = calls[p].score
                    /\ RowsOf(a.id) = calls[p].wrote

-----------------------------------------------------------------------------
(* Properties of concurrent submitters (checked under SpecSubmitters) *)

\* C22: once the submit calls of different users, each with its own
\* update_stats and its own update_all_ranks and interleaved in any way, have
\* all returned, the ranks of the profiles with total_quizzes_completed > 0
\* are exactly 1..N, none twice.
C22_DenseAfterSubmitters ==
    ( /\ BothSubmitted
      /\ \A p \in Workers : calls[p].result = "ok"
      /\ \A p, q \in Workers : p # q => calls[p].user # calls[q].user )
    => /\ {profiles[u].rank : u \in HasCompletedQuizzes}
              = 1..Cardinality(HasCompletedQuizzes)
       /\ \A u, v \in HasCompletedQuizzes :
              u # v => profiles[u].rank # profiles[v].rank

-----------------------------------------------------------------------------
(* Properties of a recomputation beside update_stats (checked under SpecRecompute) *)

\* C24: when an update_all_ranks (here the one of a submit) runs beside the
\* update_stats calls of the update_leaderboard command, then once it has
\* returned and those update_stats calls have ended, the profiles it read as
\* qualifying have exactly the ranks 1..N it assigned.
C24_StatsKeepRanks ==
    \A p, q \in Workers :
        ( /\ calls[q].op = "submit"
          /\ calls[q].pc = "done"
          /\ calls[q].result = "ok"
          /\ calls[p].op = "update_leaderboard"
          /\ calls[p].pc = "ranks_reset" )
        => /\ {profiles[calls[q].order[i]].rank : i \in DOMAIN calls[q].order}
                  = 1..Len(calls[q].order)
           /\ \A i \in DOMAIN calls[q].order :
                  profiles[calls[q].order[i]].rank = i

-----------------------------------------------------------------------------
(* Properties of repeated update_stats (checked under SpecStatsPair) *)

\* worker p ran update_stats to its end over the attempts the user still has
RanOverCurrentAttempts(p) ==
    /\ calls[p].op = "update_stats"
    /\ calls[p].pc = "done"
    /\ calls[p].result = "ok"
    /\ calls[p].seen = QualifyingAttempts(calls[p].user)

\* what one update_stats call over the user's attempts stores
AggregatesAreCurrent(u) ==
    LET S  == QualifyingAttempts(u)
        ts == SumFn([a \in attempts |-> a.score], S)
        tt == SumFn([a \in attempts |-> a.total_points], S)
    IN  /\ profiles[u].total_quizzes_completed = Cardinality(S)
        /\ profiles[u].total_score = ts
        /\ S = {} => profiles[u].average_score_percentage = 0
        /\ tt > 0 => profiles[u].average_score_percentage
                         = (20000 * ts + tt) \div (2 * tt)

\* C28: two update_stats calls for one user over the same set of attempts, one
\* after the other or with their steps interleaved in any way, leave the
\* profile with the total_quizzes_completed, total_score and
\* average_score_percentage that a single call over those attempts leaves.
C28_UpdateStatsIdempotent ==
    /\ \A p, q \in Workers :
          ( /\ p # q
            /\ RanOverCurrentAttempts(p)
            /\ calls[q].pc = "idle" )
          => AggregatesAreCurrent(calls[p].user)
    /\ \A p, q \in Workers :
          ( /\ p # q
            /\ RanOverCurrentAttempts(p)
            /\ RanOverCurrentAttempts(q)
            /\ calls[p].user = calls[q].user )
          => AggregatesAreCurrent(calls[p].user)

C28_Witness ==
    /\ \A p \in Workers : RanOverCurrentAttempts(p)
    /\ Cardinality(QualifyingAttempts(1)) = 2
    /\ profiles[1].total_quizzes_completed = 2
    /\ profiles[1].total_score = 7

-----------------------------------------------------------------------------
(* Properties of a failing run of the command (checked under SpecJobFails) *)

\* C25: an execution of the periodic job that fails leaves every profile's
\* aggregates and rank as they were before it began, that is, as the last
\* execution or recomputation that succeeded left them.
C25_FailedJobChangesNothing ==
    [][(last'.op = "update_leaderboard_job" /\ last'.result = "failed")
          => profiles' = profiles]_vars

-----------------------------------------------------------------------------
(* Properties of the job as a backstop (checked under SpecJobFailsFair) *)

\* C23: while the scheduler runs, a firing leads to an execution of the job
\* that ends, and when one has ended every profile's total_quizzes_completed,
\* total_score and average_score_percentage are those recomputed from the
\* user's completed non-AI attempts and the ranks are dense, also after
\* save_custom_quiz_result calls, which update no profile themselves.
C23_JobRepairsProfiles ==
    /\ [](last.op = "update_leaderboard_job" =>
             /\ \A u \in DOMAIN profiles : AggregatesAreCurrent(u)
             /\ {profiles[u].rank : u \in HasCompletedQuizzes}
                    = 1..Cardinality(HasCompletedQuizzes))
    /\ (scheduler = "running" /\ fired < MaxFirings)
           ~> (last.op = "update_leaderboard_job")

-----------------------------------------------------------------------------
(* Properties of stored totals under edits of the bank (checked under SpecBank) *)

\* C31: an attempt's total_points is the sum of its quiz's question points
\* at the moment the row is created and never changes afterwards, and a
\* completed attempt's score never changes, whatever update_points and the
\* import do to the quiz's questions later.
C31_TotalPointsFixedAtCreation ==
    [][\A b \in attempts' :
          IF \E a \in attempts : a.id = b.id
          THEN \A a \in attempts :
                  a.id = b.id =>
                      /\ b.total_points = a.total_points
                      /\ a.is_completed => b.score = a.score
          ELSE last'.op = "submit" =>
                  b.total_points = QuizTotalPoints(questions, b.quiz)]_vars

\* a submit has completed an attempt that was created before the bank was
\* edited, and the quiz is now worth more than the attempt's total_points
C31_Witness ==
    /\ last.op = "submit"
    /\ last.result = "ok"
    /\ \E a \in attempts :
          /\ a.id = last.attempt
          /\ a.is_completed
          /\ a.started_at < a.completed_at
          /\ a.total_points < QuizTotalPoints(questions, a.quiz)

-----------------------------------------------------------------------------
(* Properties of what a cleanup leaves behind (checked under SpecCleanup) *)

\* the ranks of the profiles with completed quizzes are 1..N, each used once
DenseRanks ==
    /\ {profiles[u].rank : u \in HasCompletedQuizzes}
           = 1..Cardinality(HasCompletedQuizzes)
    /\ \A u, v \in HasCompletedQuizzes : u # v => profiles[u].rank # profiles[v].rank

\* C37: when cleanup_quiz_data(cutoff) has completed, no attempt started
\* before the cutoff and no Answer of one remains, every attempt started at or
\* after the cutoff and each of its Answers is as it was, every profile's
\* aggregates are those of a recomputation over the remaining attempts, and
\* the ranks of the profiles that still qualify are 1..N.
C37_CleanupFrame ==
    [][\A cutoff \in 1..(MaxClock + 1) :
          (CleanupQuizData(cutoff) /\ last'.result = "ok")
          => LET kept == {a \in attempts : a.started_at >= cutoff}
             IN  /\ \A a \in attempts' : a.started_at >= cutoff
                 /\ \A i \in DOMAIN answers' :
                       \E a \in attempts' : a.id = answers'[i].attempt
                 /\ attempts' = kept
                 /\ answers' = SelectSeq(answers,
                                  LAMBDA r : \E a \in kept : a.id = r.attempt)
                 /\ (\A u \in DOMAIN profiles : AggregatesAreCurrent(u))'
                 /\ DenseRanks']_vars

\* a cleanup has deleted the attempts and answers of one user and left those
\* of another, who now holds rank 1 alone
C37_Witness ==
    /\ last.op = "cleanup_quiz_data"
    /\ last.result = "ok"
    /\ last.processed > 0
    /\ Len(answers) > 0
    /\ \E u, v \in DOMAIN profiles :
          /\ profiles[u].total_quizzes_completed = 0
          /\ \A a \in attempts : a.user # u
          /\ profiles[v].rank = 1
          /\ \E a \in attempts : a.user = v /\ a.is_completed

-----------------------------------------------------------------------------
(* Properties of the order of the job's work (checked under SpecCommand) *)

\* the job's run has begun update_all_ranks
JobInRanks ==
    /\ calls[JobWorker].op = "update_leaderboard"
    /\ calls[JobWorker].pc \in {"ranks_reset", "ranks_read", "ranks_assign"}

\* the job's run is over, normally or by an exception
JobOver ==
    /\ calls[JobWorker].op = "update_leaderboard"
    /\ calls[JobWorker].pc = "done"

\* the profiles the job's run has called update_stats for: those saved and
\* the one the loop is at
JobCalled ==
    calls[JobWorker].saved \cup
        (IF calls[JobWorker].self = NoProfile THEN {}
         ELSE {calls[JobWorker].self.user})

\* C32: every execution of the job calls update_stats for every profile it
\* found, and starts update_all_ranks only after the last of these calls has
\* saved: no step of the job's update_all_ranks writes a rank before.
C32_StatsThenRanks ==
    /\ [](JobInRanks \/ JobOver => JobCalled = calls[JobWorker].batch)
    /\ [][(RanksReset(JobWorker) \/ RanksAssign(JobWorker)) =>
             /\ calls[JobWorker].loaded = <<>>
             /\ calls[JobWorker].saved = calls[JobWorker].batch]_vars

-----------------------------------------------------------------------------
(* Properties of the stored score against the stored answers (checked under Spec) *)

\* the points of the questions of attempt aid's Answer rows marked correct
CorrectRowPoints(aid) ==
    LET I == {i \in DOMAIN answers : answers[i].attempt = aid /\ answers[i].is_correct}
    IN  SumFn([i \in I |-> questions[answers[i].question].points], I)

\* C35: in every reachable state the score of every attempt a submit
\* completed equals the sum of the points of the questions of its Answer rows
\* whose is_correct flag is true, also when the completing submit was a retry
\* after a submit for the same pair that failed partway.
C35_ScoreMatchesAnswerRows ==
    \A a \in attempts : a.is_completed => a.score = CorrectRowPoints(a.id)

-----------------------------------------------------------------------------
(* Properties of completed attempts (checked under SpecFrozen) *)

\* the Answer rows of attempt aid, in the order they were written
AnswersOf(rows, aid) == SelectSeq(rows, LAMBDA r : r.attempt = aid)

\* C33: a completed attempt is changed by no later operation except the
\* deletion by cleanup_quiz_data: whatever submit, update_stats,
\* update_all_ranks or execution of the job runs next, the row keeps
\* is_completed, score and total_points and the attempt keeps its Answer
\* rows with their is_correct flags.
C33_CompletedAttemptsFrozen ==
    [][\A a \in attempts :
          a.is_completed =>
             \/ /\ a \in attempts'
                /\ AnswersOf(answers', a.id) = AnswersOf(answers, a.id)
             \/ /\ last'.op = "cleanup_quiz_data"
                /\ \A b \in attempts' : b.id # a.id
                /\ AnswersOf(answers', a.id) = <<>>]_vars

\* a second submit for a completed attempt with an Answer row was refused
\* after an execution of the job had run
C33_Witness ==
    /\ last.op = "submit"
    /\ last.result = "AlreadyCompleted"
    /\ RowsOf(last.attempt) > 0
    /\ started > 0
    /\ job_instances = 0

-----------------------------------------------------------------------------
(* Properties of what update_stats writes (checked under SpecRecompute) *)

\* C36: the write of update_stats changes only the aggregates of its own
\* profile: the stored rank of that profile and every field of every other
\* profile stay as they were, also when an update_all_ranks has written a new
\* rank for the profile after the caller loaded it.
C36_UpdateStatsWritesAggregatesOnly ==
    [][\A p \in Workers :
          StatsSave(p) =>
             LET u == calls[p].self.user
             IN  /\ profiles'[u].rank = profiles[u].rank
                 /\ \A v \in DOMAIN profiles \ {u} : profiles'[v] = profiles[v]]_vars

-----------------------------------------------------------------------------
(* Properties of start and stop side by side (checked under SpecStartStop) *)

RECURSIVE SumSeq(_, _)
SumSeq(f, n) == IF n = 0 THEN 0 ELSE f[n] + SumSeq(f, n - 1)

\* executions of the job in progress in the whole process
ExecutionsInProgress ==
    SumSeq([i \in DOMAIN schedulers |-> schedulers[i].instances], Len(schedulers))

\* C34: whatever way the steps of start_scheduler and stop_scheduler calls of
\* parallel request handlers interleave, at most one scheduler is alive, at
\* most one execution of the job is in progress in the process, and every
\* running scheduler is the one the module global is bound to, so that a
\* later stop_scheduler reaches it.
C34_OneSchedulerAlive ==
    /\ Cardinality({i \in DOMAIN schedulers : Alive(i)}) <= 1
    /\ ExecutionsInProgress <= 1
    /\ \A i \in DOMAIN schedulers : schedulers[i].state = "running" => current = i

-----------------------------------------------------------------------------
(* Properties of the retry loop (checked under SpecGenerateFair) *)

\* the last answer of the model is one the handler retries after
Retried(a) ==
    \/ a.kind = "bad_json"
    \/ a.kind = "error" /\ a.keywords \cap RetryKeywords # {}

\* C38: generate_ai_quiz calls the external model at most 3 times and always
\* ends with a response: after a call it goes on to another only if the answer
\* was text that does not parse or an error classified as retryable and fewer
\* than 3 calls were made; a quiz ends it with success at once, an error that
\* is not retryable with an error response at once, and a failure of the third
\* call with an error response.
C38_AtMostThreeCalls ==
    /\ [](\A p \in Workers : calls[p].asked <= 3)
    /\ [][\A p \in Workers :
            GenerateAttempt(p) =>
               LET c == calls'[p]
               IN  /\ c.pc # "done" => (Retried(c.heard) /\ c.asked < 3)
                   /\ c.heard.kind = "quiz" => (c.pc = "done" /\ c.result = "ok")
                   /\ (c.heard.kind = "error" /\ ~Retried(c.heard))
                         => (c.pc = "done" /\ c.result # "ok")
                   /\ (c.asked = 3 /\ c.heard.kind # "quiz")
                         => (c.pc = "done" /\ c.result # "ok")]_vars
    /\ \A p \in Workers :
          (calls[p].op = "generate_ai_quiz") ~> (calls[p].pc = "done")

\* one request ended in an error after its third call gave text that does not
\* parse, and another succeeded on its second call, after one retry
C38_Witness ==
    \E p, q \in Workers :
        /\ calls[p].pc = "done"
        /\ calls[p].asked = 3
        /\ calls[p].result = "ParseFailed500"
        /\ calls[q].pc = "done"
        /\ calls[q].asked = 2
        /\ calls[q].result = "ok"

====
